---------------------------- MODULE Spec2Model ----------------------------
(***************************************************************************)
(* Analysis orchestration and caching of AiBsCleaner:                      *)
(*   analyzer/analyzer.go   Analyze, checkCache, updateCache, cloneIssues  *)
(*   cache/hybrid_cache.go  HybridCache (in-memory LRU over the disk store)*)
(*   cache/file_cache.go    FileCache (the disk store; src/unnamed/part_025)*)
(*                                                                         *)
(* Issue objects live in `heap` and are referred to by address, so that a  *)
(* slice of *models.Issue is a sequence of addresses and sharing between   *)
(* the caches and their callers is visible.  Goroutines are the Threads;   *)
(* every action is one region of code that runs under one lock (or touches *)
(* only the goroutine's locals).                                           *)
(***************************************************************************)
EXTENDS Integers, Sequences, FiniteSets, TLC

(***************************************************************************)
(* Bounds of the model.                                                    *)
(***************************************************************************)
MaxItems == 2
\* capacity of the LRU (maxItems of NewHybridCache)

NumKeys == MaxItems + 1
AllKeys == <<"a.go", "b.go", "c.go", "d.go", "e.go">>
Keys == {AllKeys[i] : i \in 1..NumKeys}

Threads == {"g1", "g2"}

NodeIds == 1..(MaxItems + Cardinality(Threads) + 1)
NoNode == 0

NilAddr == 0
\* the nil *models.Issue

(***************************************************************************)
(* Small helpers on sequences.                                             *)
(***************************************************************************)
Range(s) == {s[i] : i \in DOMAIN s}

RemoveAt(s, i) == SubSeq(s, 1, i - 1) \o SubSeq(s, i + 1, Len(s))

RECURSIVE SumSeq(_)
SumSeq(s) == IF s = <<>> THEN 0 ELSE Head(s) + SumSeq(Tail(s))

RECURSIVE Perms(_)
Perms(S) ==
    IF S = {} THEN {<<>>}
    ELSE UNION {{<<x>> \o p : p \in Perms(S \ {x})} : x \in S}


(***************************************************************************)
(* models.Issue objects.  A field that holds a time.Time is modelled by    *)
(* whether it is set (non-zero).                                           *)
(***************************************************************************)
Addrs == {1, 2}

Issue(id, type, line) ==
    [ID |-> id, Type |-> type, Line |-> line, Message |-> "found",
     FixedAt |-> FALSE, IgnoredAt |-> FALSE]

InitHeap == (1 :> Issue("i1", "NESTED_LOOP", 3)) @@ (2 :> Issue("i2", "SLICE_CAPACITY", 5))

\* The deep value of a []*models.Issue: what reflect.DeepEqual and
\* json.Marshal see.
NullIssue == [ID |-> "null", Type |-> "", Line |-> 0, Message |-> "", FixedAt |-> FALSE, IgnoredAt |-> FALSE]

DeepIssues(h, is) == [i \in DOMAIN is |-> IF is[i] = NilAddr THEN NullIssue ELSE h[is[i]]]

(***************************************************************************)
(* cache.FileCache: the disk store.  fc.data is the CacheData in memory,   *)
(* fc.file the contents of cache.json.  LastAnalyzed, LastUpdated and      *)
(* LastFullScan are clock readings no operation of the model reads back;   *)
(* they are left out.                                                      *)
(***************************************************************************)
Entry(hash, issues) == [Hash |-> hash, Issues |-> issues]

FileRecord(path, hash, issues, ignored) ==
    [Path |-> path, Hash |-> hash, Issues |-> issues, Ignored |-> ignored]

EmptyStats ==
    [TotalFiles |-> 0, TotalIssues |-> 0, IgnoredIssues |-> 0, FixedIssues |-> 0,
     CacheHits |-> 0, CacheMisses |-> 0]

EmptyData == [Files |-> <<>>, Stats |-> EmptyStats]

NoFile == [exists |-> FALSE, files |-> <<>>, stats |-> EmptyStats]

\* New on a directory with no cache.json: load returns nil and the data
\* stay as constructed.
NewFileCache == [data |-> EmptyData, file |-> NoFile]

\* Index of the first record with this path, 0 when there is none
\* (the `for ... if r.Path == filePath ... break` loops).
FindRecord(files, path) ==
    IF \E i \in DOMAIN files : files[i].Path = path
    THEN CHOOSE i \in DOMAIN files :
            files[i].Path = path /\ \A j \in 1..(i - 1) : files[j].Path # path
    ELSE 0

CountFixed(h, is) == Cardinality({i \in DOMAIN is : h[is[i]].FixedAt})

\* A faulty variant: the totals are left as they were.
updateStatsStale(data, h) == data

updateStats(data, h) ==
    [data EXCEPT !.Stats =
        [TotalFiles    |-> Len(data.Files),
         TotalIssues   |-> SumSeq([i \in DOMAIN data.Files |-> Len(data.Files[i].Issues)]),
         IgnoredIssues |-> SumSeq([i \in DOMAIN data.Files |-> Len(data.Files[i].Ignored)]),
         FixedIssues   |-> SumSeq([i \in DOMAIN data.Files |-> CountFixed(h, data.Files[i].Issues)]),
         CacheHits     |-> data.Stats.CacheHits,
         CacheMisses   |-> data.Stats.CacheMisses]]

\* json.Marshal(fc.data): the document holds the issues' values.
Marshal(data, h) ==
    [exists |-> TRUE,
     files |-> [i \in DOMAIN data.Files |->
                    [path    |-> data.Files[i].Path,
                     hash    |-> data.Files[i].Hash,
                     issues  |-> DeepIssues(h, data.Files[i].Issues),
                     ignored |-> data.Files[i].Ignored]],
     stats |-> data.Stats]

\* Writes the temp file and renames it over cache.json.
saveUnsafe(c, h) == [c EXCEPT !.file = Marshal(c.data, h)]

\* A faulty variant: the old record of the path stays.
RemoveRecordKeeps(files, path) == files

\* Removes the first record of the path, if any.
RemoveRecord(files, path) ==
    IF FindRecord(files, path) = 0 THEN files ELSE RemoveAt(files, FindRecord(files, path))

SaveRawRecord(c, h, key, entry) ==
    LET newRecord == FileRecord(key, entry.Hash, entry.Issues, <<>>)
        files == Append(RemoveRecord(c.data.Files, key), newRecord)
    IN  saveUnsafe([c EXCEPT !.data = updateStats([c.data EXCEPT !.Files = files], h)], h)

\* convertIssues on a slice of *models.Issue keeps every pointer (a nil one
\* too); the callers of this repository pass nothing else.
convertIssues(issues) == issues

SaveFileRecord(c, h, filePath, hash, issues) ==
    LET i == FindRecord(c.data.Files, filePath)
        oldIgnored == IF i = 0 THEN <<>> ELSE c.data.Files[i].Ignored
        record == FileRecord(filePath, hash, convertIssues(issues), oldIgnored)
        files == Append(RemoveRecord(c.data.Files, filePath), record)
    IN  saveUnsafe([c EXCEPT !.data = updateStats([c.data EXCEPT !.Files = files], h)], h)

ClearCache(c, h) == saveUnsafe([c EXCEPT !.data = EmptyData], h)

\* FileCache.save / FileCache.Close
save(c, h) == saveUnsafe(c, h)


\* Index of the first issue of the record with this ID, 0 when there is none.
FirstWithID(h, issues, issueID) ==
    IF \E i \in DOMAIN issues : h[issues[i]].ID = issueID
    THEN CHOOSE i \in DOMAIN issues :
            h[issues[i]].ID = issueID /\ \A j \in 1..(i - 1) : h[issues[j]].ID # issueID
    ELSE 0

\* IgnoreIssue and MarkIssueFixed write to the Issue object the record points
\* to; they return the cache and the heap.  With no record of the path they
\* return an error and change nothing.
IgnoreIssue(c, h, filePath, issueID) ==
    LET i == FindRecord(c.data.Files, filePath)
    IN  IF i = 0 THEN [fc |-> c, heap |-> h]
        ELSE LET record == c.data.Files[i]
                 ignored == IF issueID \in Range(record.Ignored) THEN record.Ignored
                            ELSE Append(record.Ignored, issueID)
                 j == FirstWithID(h, record.Issues, issueID)
                 h1 == IF j = 0 THEN h
                       ELSE [h EXCEPT ![record.Issues[j]].IgnoredAt = TRUE]
                 data == updateStats([c.data EXCEPT !.Files[i].Ignored = ignored], h1)
             IN  [fc |-> saveUnsafe([c EXCEPT !.data = data], h1), heap |-> h1]

IsIssueIgnored(c, filePath, issueID) ==
    /\ FindRecord(c.data.Files, filePath) # 0
    /\ issueID \in Range(c.data.Files[FindRecord(c.data.Files, filePath)].Ignored)

MarkIssueFixed(c, h, filePath, issueID) ==
    LET i == FindRecord(c.data.Files, filePath)
    IN  IF i = 0 THEN [fc |-> c, heap |-> h]
        ELSE LET record == c.data.Files[i]
                 j == FirstWithID(h, record.Issues, issueID)
                 h1 == IF j = 0 THEN h
                       ELSE [h EXCEPT ![record.Issues[j]].FixedAt = TRUE]
             IN  [fc |-> saveUnsafe([c EXCEPT !.data = updateStats(c.data, h1)], h1),
                  heap |-> h1]

NotFound == FileRecord("", <<>>, <<>>, <<>>)

\* Returns the struct copy `*record`: its Issues and Ignored are the same
\* slices, holding the same pointers, as the stored record's.
GetFileRecord(c, filePath) ==
    IF FindRecord(c.data.Files, filePath) = 0 THEN NotFound
    ELSE c.data.Files[FindRecord(c.data.Files, filePath)]

(***************************************************************************)
(* cache.HybridCache.  hc.lru is the container/list, front first, as the   *)
(* sequence of its elements; an element is a node id and hc.items[n] the   *)
(* *cacheItem it holds.  hc.memCache maps a key to its element.  An id is  *)
(* free (NoItem) when the element is neither in the list nor referenced by *)
(* a goroutine.  lastAccess is written and never read; it is left out.     *)
(***************************************************************************)
CacheItem(key, entry) == [key |-> key, entry |-> entry]

NoEntry == Entry(<<>>, <<>>)

NoItem == CacheItem("", NoEntry)

NewHybrid ==
    [memCache |-> <<>>, lru |-> <<>>, items |-> [n \in NodeIds |-> NoItem], dirtyKeys |-> {}]

MapPut(m, k, v) == [x \in DOMAIN m \cup {k} |-> IF x = k THEN v ELSE m[x]]

MapDelete(m, k) == [x \in DOMAIN m \ {k} |-> m[x]]

\* A faulty variant: the element stays where it is.
MoveToFrontStays(l, e) == l

\* list.MoveToFront does nothing for an element that is not (or no longer)
\* an element of this list.
MoveToFront(l, e) ==
    IF e \in Range(l) THEN <<e>> \o SelectSeq(l, LAMBDA x : x # e) ELSE l

PushFront(l, e) == <<e>> \o l

Back(l) == IF l = <<>> THEN NoNode ELSE l[Len(l)]

Remove(l, e) == SelectSeq(l, LAMBDA x : x # e)

NewElement(hc) == CHOOSE n \in NodeIds : hc.items[n] = NoItem /\ \A m \in 1..(n - 1) : hc.items[m] # NoItem

\* A faulty variant: nothing is written.
flushItemSkipped(c, h, key, entry) == c

flushItem(c, h, key, entry) == SaveRawRecord(c, h, key, entry)

\* A faulty variant: the element at the front is the victim.
evictOldestTakesFront(s, h) ==
    IF s.hc.lru = <<>> THEN s
    ELSE LET elem == Head(s.hc.lru)
             item == s.hc.items[elem]
         IN  [hc |-> [s.hc EXCEPT !.lru = Remove(@, elem),
                                  !.memCache = MapDelete(@, item.key),
                                  !.dirtyKeys = @ \ {item.key}],
              fc |-> IF item.key \in s.hc.dirtyKeys
                     THEN flushItem(s.fc, h, item.key, item.entry)
                     ELSE s.fc]

\* s is the pair [hc |-> the hybrid cache, fc |-> its disk store].
evictOldest(s, h) ==
    LET elem == Back(s.hc.lru)
    IN  IF elem = NoNode THEN s
        ELSE LET item == s.hc.items[elem]
             IN  [hc |-> [s.hc EXCEPT !.lru = Remove(@, elem),
                                      !.memCache = MapDelete(@, item.key),
                                      !.dirtyKeys = @ \ {item.key}],
                  fc |-> IF item.key \in s.hc.dirtyKeys
                         THEN flushItem(s.fc, h, item.key, item.entry)
                         ELSE s.fc]

addToMemCache(s, h, key, entry) ==
    LET s1 == IF Len(s.hc.lru) >= MaxItems THEN evictOldest(s, h) ELSE s
        elem == NewElement(s1.hc)
    IN  [s1 EXCEPT !.hc.items[elem] = CacheItem(key, entry),
                   !.hc.lru = PushFront(@, elem),
                   !.hc.memCache = MapPut(@, key, elem)]

Put(s, h, key, entry) ==
    LET d == [s EXCEPT !.hc.dirtyKeys = @ \cup {key}]
    IN  IF key \in DOMAIN s.hc.memCache
        THEN [d EXCEPT !.hc.lru = MoveToFront(@, s.hc.memCache[key]),
                       !.hc.items[s.hc.memCache[key]].entry = entry]
        ELSE addToMemCache(d, h, key, entry)

\* The loop of Flush over the dirty keys, in the order `keys` the map
\* iteration takes.
RECURSIVE FlushItems(_, _, _, _)
FlushItems(c, h, hc, keys) ==
    IF keys = <<>> THEN c
    ELSE FlushItems(
            IF Head(keys) \in DOMAIN hc.memCache
            THEN flushItem(c, h, Head(keys), hc.items[hc.memCache[Head(keys)]].entry)
            ELSE c,
            h, hc, Tail(keys))

\* A faulty variant: the dirty set is cleared and no item is written.
FlushWritesNothing(s, h, keys) ==
    [hc |-> [s.hc EXCEPT !.dirtyKeys = {}], fc |-> save(s.fc, h)]

Flush(s, h, keys) ==
    [hc |-> [s.hc EXCEPT !.dirtyKeys = {}],
     fc |-> save(FlushItems(s.fc, h, s.hc, keys), h)]

\* The locked part of Clear.
ClearMemory(hc) == [hc EXCEPT !.memCache = <<>>, !.lru = <<>>, !.dirtyKeys = {}]


(***************************************************************************)
(* computeFileHash: FNV-1a (64 bit) over the decimal digits of every       *)
(* node's position (token.NoPos skipped) and of the node count, rendered   *)
(* in base 36.  A 64-bit word is four 16-bit limbs, least significant      *)
(* first, so that every product stays below 2^31.                          *)
(***************************************************************************)
Limb == 65536

RECURSIVE Xor(_, _)
Xor(a, b) ==
    IF a = 0 THEN b
    ELSE IF b = 0 THEN a
    ELSE (((a % 2) + (b % 2)) % 2) + 2 * Xor(a \div 2, b \div 2)

\* offset64 = 14695981039346656037 = 0xcbf29ce484222325
FnvOffset64 == <<8997, 33826, 40164, 52210>>

\* hash * prime64 mod 2^64, prime64 = 1099511628211 = 2^40 + 435
FnvMul(w) ==
    LET p0 == w[1] * 435
        p1 == w[2] * 435 + p0 \div Limb
        p2 == w[3] * 435 + w[1] * 256 + p1 \div Limb
        p3 == w[4] * 435 + w[2] * 256 + p2 \div Limb
    IN  <<p0 % Limb, p1 % Limb, p2 % Limb, p3 % Limb>>

\* h.Write(bytes) of fnv.New64a: for each byte, xor then multiply.
RECURSIVE FnvWrite(_, _)
FnvWrite(w, bytes) ==
    IF bytes = <<>> THEN w
    ELSE FnvWrite(FnvMul([w EXCEPT ![1] = Xor(@, Head(bytes))]), Tail(bytes))

\* strconv.AppendInt(buf[:0], n, 10) for n >= 0, as ASCII bytes.
RECURSIVE AppendInt(_)
AppendInt(n) == IF n < 10 THEN <<48 + n>> ELSE Append(AppendInt(n \div 10), 48 + (n % 10))

\* strconv.FormatUint(v, 36): the base-36 digits, most significant first.
DivLimbs(w, d) ==
    LET r3 == w[4] % d
        r2 == (r3 * Limb + w[3]) % d
        r1 == (r2 * Limb + w[2]) % d
        r0 == (r1 * Limb + w[1]) % d
    IN  [q |-> <<(r1 * Limb + w[1]) \div d, (r2 * Limb + w[2]) \div d,
                 (r3 * Limb + w[3]) \div d, w[4] \div d>>,
         r |-> r0]

RECURSIVE FormatUint(_, _)
FormatUint(w, base) ==
    IF DivLimbs(w, base).q = <<0, 0, 0, 0>> THEN <<DivLimbs(w, base).r>>
    ELSE Append(FormatUint(DivLimbs(w, base).q, base), DivLimbs(w, base).r)

NoPos == 0

\* The hash after ast.Inspect has visited the nodes at positions `pos`
\* (pre-order).
RECURSIVE InspectHash(_, _)
InspectHash(w, pos) ==
    IF pos = <<>> THEN w
    ELSE InspectHash(IF Head(pos) # NoPos THEN FnvWrite(w, AppendInt(Head(pos))) ELSE w,
                     Tail(pos))

computeFileHash(file) ==
    FormatUint(FnvWrite(InspectHash(FnvOffset64, file.pos), AppendInt(Len(file.pos))), 36)

(***************************************************************************)
(* The parsed files of the model: the pre-order node positions and the     *)
(* source text they were parsed from.  `renamed` is `small` with an        *)
(* identifier renamed: every node keeps its position.                      *)
(***************************************************************************)
NilFile == "nil"

Files ==
    [small   |-> [pos |-> <<1, 9>>,         src |-> "small"],
     renamed |-> [pos |-> <<1, 9>>,         src |-> "renamed"],
     grown   |-> [pos |-> <<1, 9, 12, 17>>, src |-> "grown"]]

FileNames == {"small", "renamed", "grown"}

\* Evaluated once: the fingerprint of each parsed file.
FileHash == [f \in FileNames |-> computeFileHash(Files[f])]

(***************************************************************************)
(* The rules.  Two of the registry's analyzers stand for all of them, in   *)
(* registration order; a rule is a function of the parsed file.            *)
(***************************************************************************)
allAnalyzers == <<"loop", "slice">>

RuleAnalyze(name, file) ==
    CASE name = "loop"  -> IF file.src = "grown" THEN <<1>> ELSE <<>>
      [] name = "slice" -> IF file.src \in {"small", "grown"} THEN <<2>> ELSE <<>>

\* enabledAnalyzers: nil, or the set of names the map holds true.
NilMap == [nil |-> TRUE, on |-> {}]
EnabledChoices == {NilMap, [nil |-> FALSE, on |-> {"loop"}]}

IsEnabled(enabled, name) == enabled.nil \/ name \in enabled.on

RECURSIVE RunAnalyzers(_, _, _)
RunAnalyzers(entries, file, enabled) ==
    IF entries = <<>> THEN <<>>
    ELSE (IF IsEnabled(enabled, Head(entries)) THEN RuleAnalyze(Head(entries), file) ELSE <<>>)
         \o RunAnalyzers(Tail(entries), file, enabled)

\* A faulty variant: the clone loses the issues.
cloneIssuesLosesIssues(src) == <<>>

\* The copies are represented by the addresses of the originals: the
\* specifications that run Analyze never write to an Issue.
cloneIssues(src) ==
    IF Len(src) = 0 THEN <<>> ELSE SelectSeq(src, LAMBDA a : a # NilAddr)


(***************************************************************************)
(* The legacy cache of analyzer.go (globalCache), used by checkCache only  *)
(* when the hybrid cache could not be constructed.  Time is counted in     *)
(* units of maxAge (15 minutes); an entry carries its age                  *)
(* now - Timestamp, which stops counting once it is past maxAge.           *)
(***************************************************************************)
MaxAge == 1
\* ticks of the model's clock in maxAge

CacheEntry(hash, issues, age) == [Hash |-> hash, Issues |-> issues, Age |-> age]

cleanCache(results) ==
    [k \in {x \in DOMAIN results : ~(results[x].Age > MaxAge)} |-> results[k]]

Older(results) ==
    [k \in DOMAIN results |->
        [results[k] EXCEPT !.Age = IF @ > MaxAge THEN @ ELSE @ + 1]]

(***************************************************************************)
(* analyzer/ignore.go: suppression by comment.  A string is the sequence   *)
(* of its pieces; a piece is a separator (a space, a tab, a comma), a      *)
(* comment marker, or a run of other characters that holds none of         *)
(* these.  The pieces are chosen so that one string has one sequence:      *)
(* "abc:ignore-line" is <<"abc:ignore", "-line">>.                         *)
(***************************************************************************)
WhiteSpace == {" ", "TAB"}

RECURSIVE TrimLeft(_)
TrimLeft(s) == IF s # <<>> /\ Head(s) \in WhiteSpace THEN TrimLeft(Tail(s)) ELSE s

RECURSIVE TrimRight(_)
TrimRight(s) ==
    IF s # <<>> /\ s[Len(s)] \in WhiteSpace THEN TrimRight(SubSeq(s, 1, Len(s) - 1)) ELSE s

\* strings.TrimSpace
TrimSpace(s) == TrimRight(TrimLeft(s))

\* strings.HasPrefix, strings.HasSuffix, strings.Contains
HasPrefix(s, p) == Len(s) >= Len(p) /\ SubSeq(s, 1, Len(p)) = p

HasSuffix(s, p) == Len(s) >= Len(p) /\ SubSeq(s, Len(s) - Len(p) + 1, Len(s)) = p

Contains(s, p) == \E i \in 1..(Len(s) - Len(p) + 1) : SubSeq(s, i, i + Len(p) - 1) = p

\* strings.Split(s, sep) for a separator of one piece: the fields between
\* the separators, empty ones included.
RECURSIVE Split(_, _)
Split(s, sep) ==
    IF \E i \in DOMAIN s : s[i] = sep
    THEN LET i == CHOOSE i \in DOMAIN s : s[i] = sep /\ \A j \in 1..(i - 1) : s[j] # sep
         IN  <<SubSeq(s, 1, i - 1)>> \o Split(SubSeq(s, i + 1, Len(s)), sep)
    ELSE <<s>>

IgnorePrefix == <<"abc:ignore">>

\* A comment of the file: its text with the markers, and the line it starts on.
Comment(text, line) == [Text |-> text, Line |-> line]

extractCommentText(text) ==
    TrimSpace(IF HasPrefix(text, <<"//">>) THEN Tail(text)
              ELSE IF HasPrefix(text, <<"/*">>)
                   THEN (IF HasSuffix(Tail(text), <<"*/">>)
                         THEN SubSeq(Tail(text), 1, Len(text) - 2) ELSE Tail(text))
                   ELSE text)

\* ic.ignoreRanges: the ranges in the order they were added; the ranges of
\* the map's key k are those with issueType = k.
ignoreRange(issueType, startLine, endLine) ==
    [startLine |-> startLine, endLine |-> endLine, issueType |-> issueType]

\* A faulty variant: the range runs one line further.
addIgnoreRangeOneMore(ranges, issueType, startLine, endLine) ==
    Append(ranges, ignoreRange(issueType, startLine, endLine + 1))

addIgnoreRange(ranges, issueType, startLine, endLine) ==
    Append(ranges, ignoreRange(issueType, startLine, endLine))

FileEndLine == 999999

LoopRangeLen == 10

RECURSIVE processSpecificDirective(_, _, _, _)
processSpecificDirective(ranges, directive, issueTypes, line) ==
    IF issueTypes = <<>>
    THEN (IF directive = <<"abc:ignore">>
          THEN addIgnoreRange(ranges, <<>>, line + 1, line + 1) ELSE ranges)
    ELSE LET issueType == Head(issueTypes)
             trimmed == TrimSpace(issueType)
             added ==
               CASE directive = <<"abc:ignore", "-line">> ->
                        addIgnoreRange(ranges, trimmed, line, line)
                 [] directive = <<"abc:ignore", "-next-line">> ->
                        addIgnoreRange(ranges, trimmed, line + 1, line + 1)
                 [] directive = <<"abc:ignore", "-file">> ->
                        addIgnoreRange(ranges,
                            IF issueType = <<>> THEN <<"*">> ELSE trimmed, 0, FileEndLine)
                 [] directive = <<"abc:ignore">> ->
                        IF Contains(trimmed, <<"_IN_LOOP">>) \/ Contains(trimmed, <<"LOOP_">>)
                        THEN addIgnoreRange(ranges, trimmed, line + 1, line + LoopRangeLen)
                        ELSE addIgnoreRange(ranges, trimmed, line + 1, line + 1)
                 [] OTHER -> ranges
         IN  IF Len(issueTypes) = 1 THEN added
             ELSE processSpecificDirective(added, directive, Tail(issueTypes), line)

processIgnoreDirective(ranges, text, line) ==
    LET parts == Split(text, " ")
    IN  IF Len(parts) = 1
        THEN addIgnoreRange(ranges, <<>>, line + 1, line + 1)
        ELSE processSpecificDirective(ranges, parts[1], Split(parts[2], ","), line)

\* parseIgnoreComments over the comments of the file, in source order.
RECURSIVE parseIgnoreComments(_, _)
parseIgnoreComments(ranges, comments) ==
    IF comments = <<>> THEN ranges
    ELSE LET text == extractCommentText(Head(comments).Text)
         IN  parseIgnoreComments(
                IF HasPrefix(text, IgnorePrefix)
                THEN processIgnoreDirective(ranges, text, Head(comments).Line)
                ELSE ranges,
                Tail(comments))

NewIgnoreChecker(comments) == parseIgnoreComments(<<>>, comments)

InRanges(ranges, key, line) ==
    \E i \in DOMAIN ranges :
        /\ ranges[i].issueType = key
        /\ line >= ranges[i].startLine
        /\ line <= ranges[i].endLine

ShouldIgnore(ranges, issueType, line) ==
    \/ InRanges(ranges, issueType, line)
    \/ InRanges(ranges, <<>>, line)
    \/ InRanges(ranges, <<"*">>, line)

(***************************************************************************)
(* State.                                                                  *)
(*   hc, fc    the hybrid cache and its disk store                         *)
(*   heap      the Issue objects                                           *)
(*   legacy    globalCache.results                                         *)
(*   hybridOn  globalHybridCache != nil                                    *)
(*   th        each goroutine's position and locals                        *)
(*   held      the record a caller of the disk store obtained              *)
(*   gh        history variables, written and never read by the program    *)
(*   cli       the runs of the command-line driver over one project        *)
(*   dsk       cache.json and its temp file while FileCache saves and loads *)
(*   lk        the two mutexes, the stop channel and the ticker            *)
(*   pf        the input of a function under examination                   *)
(*   wp        the worker pool of analyzeTarget                            *)
(*   st        goroutines calling the disk store, and what they were told  *)
(***************************************************************************)
VARIABLES hc, fc, heap, legacy, hybridOn, th, held, gh, cli, dsk, lk, pf, wp, st

\* The variables the operations of Analyze and of the two caches, as the
\* specifications above the command line see them, leave alone.
aux == <<cli, dsk, lk, pf, wp, st>>

\* The variables of Analyze and of the two caches.
core == <<hc, fc, heap, legacy, hybridOn, th, held, gh>>

vars == <<hc, fc, heap, legacy, hybridOn, th, held, gh, cli, dsk, lk, pf, wp, st>>

\* Nothing runs: no command line, no save in progress, no lock traffic, no
\* input under examination, no worker pool, no caller of the disk store.
NoCli == [pc |-> "none"]

NoDsk == [pc |-> "none"]

NoLk == [pc |-> "none"]

NoPf == [pc |-> "none"]

NoWp == [pc |-> "none"]

NoSt == [pc |-> "none"]

AuxInit == cli = NoCli /\ dsk = NoDsk /\ lk = NoLk /\ pf = NoPf /\ wp = NoWp /\ st = NoSt


NoResult == [set |-> FALSE, val |-> <<>>]

IdleThread ==
    [pc |-> "idle", op |-> "none", key |-> "", file |-> NilFile, enabled |-> NilMap,
     entry |-> NoEntry, elem |-> NoNode, ok |-> FALSE, seen |-> <<>>, pair |-> <<>>,
     result |-> <<>>, nilResult |-> TRUE, ran |-> FALSE, expect |-> NoResult, expectAny |-> NoResult]

NoHeld == [has |-> FALSE, rec |-> NotFound]

NoRun ==
    [valid |-> FALSE, key |-> "", file |-> NilFile, enabled |-> NilMap, result |-> <<>>,
     age |-> 0]

NoPut == [set |-> FALSE, entry |-> NoEntry]

NoSnap == [set |-> FALSE, val |-> <<>>]

NoEvict == [set |-> FALSE, victim |-> "", oldest |-> "", dirty |-> FALSE]

InitGhost ==
    [lastRun |-> NoRun,
     hist |-> "puts", puts |-> <<>>,
     lastPut |-> [k \in Keys |-> NoPut],
     recency |-> <<>>,
     evict |-> NoEvict,
     flushed |-> FALSE, flushKeys |-> {},
     ignoredEver |-> [k \in Keys |-> {}],
     cacheSnap |-> NoSnap,
     heldSnap |-> NoSnap]

\* The analyzer and its caches at rest, for the specifications of the
\* other components.
CoreInit ==
    /\ hc = NewHybrid
    /\ fc = NewFileCache
    /\ heap = InitHeap
    /\ legacy = <<>>
    /\ hybridOn = TRUE
    /\ th = [t \in Threads |-> IdleThread]
    /\ held = NoHeld
    /\ gh = InitGhost

\* cache.json as New finds it: no file, or a document of an earlier run.
\* `recent` tells whether the record's LastAnalyzed lies within the last 24
\* hours at construction, which is all preloadHotData asks of it.
StartRecord(recent) ==
    [rec |-> FileRecord("a.go", FileHash["small"], <<2>>, <<>>), recent |-> recent]

StartFiles == {<<>>, <<StartRecord(FALSE)>>, <<StartRecord(TRUE)>>}

\* New, load: the document's records and statistics are adopted.
LoadFileCache(start) ==
    IF start = <<>> THEN NewFileCache
    ELSE LET data == updateStats([EmptyData EXCEPT
                        !.Files = [i \in DOMAIN start |-> start[i].rec]], InitHeap)
         IN  [data |-> data, file |-> Marshal(data, InitHeap)]

\* preloadHotData: up to maxItems/2 recent records, in the order of the file.
RECURSIVE preloadHotData(_, _, _)
preloadHotData(s, start, count) ==
    IF start = <<>> \/ count >= MaxItems \div 2 THEN s
    ELSE IF Head(start).recent
         THEN preloadHotData(
                addToMemCache(s, InitHeap, Head(start).rec.Path,
                              Entry(Head(start).rec.Hash, Head(start).rec.Issues)),
                Tail(start), count + 1)
         ELSE preloadHotData(s, Tail(start), count)

\* NewHybridCache over the cache file `start`.
NewHybridCache(start) ==
    preloadHotData([hc |-> NewHybrid, fc |-> LoadFileCache(start)], start, 0)

InitWith(start, hybrid) ==
    /\ hc = NewHybridCache(start).hc
    /\ fc = NewHybridCache(start).fc
    /\ heap = InitHeap
    /\ legacy = <<>>
    /\ hybridOn = hybrid
    /\ th = [t \in Threads |-> IdleThread]
    /\ held = NoHeld
    /\ AuxInit
    /\ gh = [InitGhost EXCEPT !.hist = IF start = <<>> THEN "puts" ELSE "calls",
                              !.recency = IF hc.lru = <<>> THEN <<>> ELSE <<"a.go">>]

\* The hybrid cache was constructed (the init of package analyzer succeeded).
Init == \E start \in StartFiles : InitWith(start, TRUE)

\* NewHybridCache may also have failed, leaving the legacy cache only.
InitAnalyze ==
    \/ \E start \in StartFiles : InitWith(start, TRUE)
    \/ InitWith(<<>>, FALSE)

\* The garbage collector: an element that is off the list and that no
\* goroutine refers to is gone.
Collect(h, thr) ==
    [h EXCEPT !.items =
        [n \in NodeIds |->
            IF n \in Range(h.lru) \/ \E t \in Threads : thr[t].elem = n
            THEN h.items[n] ELSE NoItem]]

Pair == [hc |-> hc, fc |-> fc]

\* What the pointer returned by Get points to: the entry inside the cache
\* item (memory hit) or the local copy made from the disk record.
RetEntry(r) == IF r.elem # NoNode THEN hc.items[r.elem].entry ELSE r.entry

(***************************************************************************)
(* History variables.                                                      *)
(***************************************************************************)
Resident(h) == {h.items[h.lru[i]].key : i \in DOMAIN h.lru}

Touch(recency, key, hNew) ==
    SelectSeq(<<key>> \o SelectSeq(recency, LAMBDA x : x # key),
              LAMBDA x : x \in Resident(hNew))

Evicted(g, hOld, hNew) ==
    IF Range(hOld.lru) \ Range(hNew.lru) = {} THEN NoEvict
    ELSE LET victim == hOld.items[CHOOSE n \in Range(hOld.lru) \ Range(hNew.lru) : TRUE].key
         IN  [set |-> TRUE,
              victim |-> victim,
              oldest |-> IF g.recency = <<>> THEN "" ELSE g.recency[Len(g.recency)],
              dirty |-> victim \in hOld.dirtyKeys]

\* A step that is no cache operation of its own (a later step of a call).
GhostKeep(g, hNew) ==
    [g EXCEPT !.evict = NoEvict,
              !.cacheSnap = NoSnap,
              !.recency = SelectSeq(@, LAMBDA x : x \in Resident(hNew))]

GhostUse(g, key, hOld, hNew) ==
    [g EXCEPT !.evict = Evicted(g, hOld, hNew),
              !.cacheSnap = NoSnap,
              !.recency = Touch(@, key, hNew)]

GhostHist(g, kind) ==
    [g EXCEPT !.flushed = FALSE, !.flushKeys = {},
              !.hist = IF kind \in {"get", "flush"} /\ @ # "any" THEN "calls" ELSE "any",
              !.puts = <<>>]

GhostPut(g, key, entry, hOld, hNew) ==
    [GhostUse(g, key, hOld, hNew) EXCEPT
        !.flushed = FALSE, !.flushKeys = {},
        !.lastPut[key] = [set |-> TRUE, entry |-> entry],
        !.lastRun = IF @.key = key THEN NoRun ELSE @,
        !.hist = IF @ = "puts" /\ key \in Range(g.puts) THEN "calls" ELSE @,
        !.puts = IF g.hist = "puts" /\ key \notin Range(g.puts) THEN Append(@, key) ELSE <<>>]


(***************************************************************************)
(* HybridCache.Get, in its lock regions.                                   *)
(***************************************************************************)
\* Lines 76-87: the lookup under the read lock.
GetLookup(r) ==
    IF r.key \in DOMAIN hc.memCache
    THEN [r EXCEPT !.elem = hc.memCache[r.key], !.pc = "get_hit"]
    ELSE [r EXCEPT !.pc = "get_disk"]

\* Get returns to its caller: the program (the call is over), or checkCache.
AfterGet(r, ok) ==
    IF r.op = "Get" THEN IdleThread
    ELSE [r EXCEPT !.ok = ok, !.pc = IF ok THEN "an_cmp" ELSE "an_run"]

CallGet(t, key) ==
    /\ th[t].pc = "idle"
    /\ hybridOn
    /\ th' = [th EXCEPT ![t] = GetLookup([IdleThread EXCEPT !.op = "Get", !.key = key])]
    /\ gh' = GhostHist(GhostKeep(gh, hc), "get")
    /\ UNCHANGED <<hc, fc, heap, legacy, hybridOn, aux, held>>

\* Lines 80-85: the element found under the read lock is moved to the front
\* under the write lock, whatever happened to it in between.
GetHit(t) ==
    /\ th[t].pc = "get_hit"
    /\ LET hNew == [hc EXCEPT !.lru = MoveToFront(@, th[t].elem)]
       IN  /\ th' = [th EXCEPT ![t] = AfterGet(@, TRUE)]
           /\ hc' = Collect(hNew, th')
           /\ gh' = IF th[t].elem \in Range(hc.lru)
                    THEN GhostUse(gh, th[t].key, hc, hNew)
                    ELSE GhostKeep(gh, hNew)
    /\ UNCHANGED <<fc, heap, legacy, hybridOn, aux, held>>

\* Line 90: the disk store is read with no lock of the hybrid cache held.
GetDisk(t) ==
    /\ th[t].pc = "get_disk"
    /\ LET record == GetFileRecord(fc, th[t].key)
       IN  th' = [th EXCEPT ![t] =
                    IF record.Path = "" THEN AfterGet(@, FALSE)
                    ELSE [@ EXCEPT !.entry = Entry(record.Hash, record.Issues),
                                   !.pc = "get_promote"]]
    /\ gh' = GhostKeep(gh, hc)
    /\ UNCHANGED <<hc, fc, heap, legacy, hybridOn, aux, held>>

\* Lines 97-101: the record read from disk is added under the write lock.
GetPromote(t) ==
    /\ th[t].pc = "get_promote"
    /\ LET s == addToMemCache(Pair, heap, th[t].key, th[t].entry)
       IN  /\ th' = [th EXCEPT ![t] = AfterGet(@, TRUE)]
           /\ hc' = Collect(s.hc, th')
           /\ fc' = s.fc
           /\ gh' = GhostUse(gh, th[t].key, hc, s.hc)
    /\ UNCHANGED <<heap, legacy, hybridOn, aux, held>>

(***************************************************************************)
(* HybridCache.Put, Flush and Clear.                                       *)
(***************************************************************************)
CallPut(t, key, entry) ==
    /\ th[t].pc = "idle"
    /\ hybridOn
    /\ LET s == Put(Pair, heap, key, entry)
       IN  /\ hc' = Collect(s.hc, th)
           /\ fc' = s.fc
           /\ gh' = GhostPut(gh, key, entry, hc, s.hc)
    /\ UNCHANGED <<heap, legacy, hybridOn, aux, th, held>>

CallFlush(t) ==
    /\ th[t].pc = "idle"
    /\ hybridOn
    /\ \E keys \in Perms(hc.dirtyKeys) :
         LET s == Flush(Pair, heap, keys)
         IN  /\ hc' = s.hc
             /\ fc' = s.fc
    /\ gh' = [GhostHist(GhostKeep(gh, hc), "flush") EXCEPT
                !.flushed = \A u \in Threads : th[u].pc = "idle",
                !.flushKeys = IF \A u \in Threads : th[u].pc = "idle"
                              THEN hc.dirtyKeys \cap DOMAIN hc.memCache ELSE {}]
    /\ UNCHANGED <<heap, legacy, hybridOn, aux, th, held>>

CallClear(t) ==
    /\ th[t].pc = "idle"
    /\ hybridOn
    /\ th' = [th EXCEPT ![t] = [IdleThread EXCEPT !.op = "Clear", !.pc = "clear_disk"]]
    /\ hc' = Collect(ClearMemory(hc), th')
    /\ gh' = [GhostHist(GhostKeep(gh, hc'), "clear") EXCEPT
                !.lastPut = [k \in Keys |-> NoPut], !.lastRun = NoRun]
    /\ UNCHANGED <<fc, heap, legacy, hybridOn, aux, held>>

ClearDisk(t) ==
    /\ th[t].pc = "clear_disk"
    /\ fc' = ClearCache(fc, heap)
    /\ th' = [th EXCEPT ![t] = IdleThread]
    /\ gh' = [GhostKeep(gh, hc) EXCEPT !.lastRun = NoRun]
    /\ UNCHANGED <<hc, heap, legacy, hybridOn, aux, held>>

(***************************************************************************)
(* analyzer.Analyze with checkCache and updateCache.                       *)
(***************************************************************************)
Expect(g, key, file, enabled, fresh) ==
    IF g.lastRun.valid /\ g.lastRun.key = key /\ g.lastRun.file = file
       /\ g.lastRun.enabled = enabled /\ fresh
    THEN [set |-> TRUE, val |-> g.lastRun.result]
    ELSE NoResult

\* The call that has returned, with the age of the entry it stored or found:
\* a hit leaves the entry's Timestamp as it was.
Finished(g, r) ==
    [g EXCEPT !.lastRun =
        [valid |-> TRUE, key |-> r.key, file |-> r.file, enabled |-> r.enabled,
         result |-> DeepIssues(heap, r.result),
         age |-> IF r.ran THEN 0
                 ELSE IF g.lastRun.valid /\ g.lastRun.key = r.key THEN g.lastRun.age
                 ELSE MaxAge]]

\* Lines 64-66 and 74; checkCache up to the end of the first lock region:
\* the lookup of Get, or the whole look into the legacy cache.
\* A faulty variant: `return nil` for a nil tree.
NilInputReturnsNil(r) == [r EXCEPT !.pc = "done"]

\* Lines 64-66: `if file == nil { return []*models.Issue{} }`, before
\* checkCache.
NilInput(r) == [r EXCEPT !.pc = "done", !.result = <<>>, !.nilResult = FALSE]

CallAnalyze(t, key, file, enabled) ==
    /\ th[t].pc = "idle"
    /\ LET r0 == [IdleThread EXCEPT
                    !.op = "Analyze", !.key = key, !.file = file, !.enabled = enabled,
                    !.expect = Expect(gh, key, file, enabled,
                                      hybridOn \/ gh.lastRun.age < MaxAge),
                    !.expectAny = Expect(gh, key, file, enabled, TRUE)]
           r1 == IF file = NilFile THEN NilInput(r0)
                 ELSE IF hybridOn THEN GetLookup(r0)
                 ELSE IF key \in DOMAIN legacy
                      THEN IF legacy[key].Hash = FileHash[file] /\ legacy[key].Age < MaxAge
                           THEN [r0 EXCEPT !.seen = legacy[key].Hash,
                                           !.pair = legacy[key].Hash,
                                           !.result = legacy[key].Issues,
                                           !.nilResult = FALSE,
                                           !.pc = "done"]
                           ELSE [r0 EXCEPT !.seen = legacy[key].Hash, !.pc = "an_run"]
                      ELSE [r0 EXCEPT !.pc = "an_run"]
       IN  /\ th' = [th EXCEPT ![t] = r1]
           /\ gh' = LET g == GhostHist(GhostKeep(gh, hc), "analyze")
                    IN  IF r1.pc = "done" THEN Finished(g, r1) ELSE g
    /\ UNCHANGED <<hc, fc, heap, legacy, hybridOn, aux, held>>

\* A faulty variant: the entry is taken whatever its hash.
AnalyzeCompareAnyHash(t) ==
    /\ th[t].pc = "an_cmp"
    /\ th' = [th EXCEPT ![t] = [@ EXCEPT !.seen = RetEntry(th[t]).Hash, !.pc = "an_clone"]]
    /\ gh' = GhostKeep(gh, hc)
    /\ UNCHANGED <<hc, fc, heap, legacy, hybridOn, aux, held>>

\* Line 159: entry.Hash is read through the pointer Get returned.
AnalyzeCompare(t) ==
    /\ th[t].pc = "an_cmp"
    /\ th' = [th EXCEPT ![t] =
                [@ EXCEPT !.seen = RetEntry(th[t]).Hash,
                          !.pc = IF RetEntry(th[t]).Hash = FileHash[th[t].file]
                                 THEN "an_clone" ELSE "an_run"]]
    /\ gh' = GhostKeep(gh, hc)
    /\ UNCHANGED <<hc, fc, heap, legacy, hybridOn, aux, held>>

\* Line 160: entry.Issues is read through the same pointer and cloned.
AnalyzeClone(t) ==
    /\ th[t].pc = "an_clone"
    /\ th' = [th EXCEPT ![t] =
                [@ EXCEPT !.result = cloneIssues(RetEntry(th[t]).Issues),
                          !.nilResult = FALSE,
                          !.pair = RetEntry(th[t]).Hash,
                          !.pc = "done"]]
    /\ hc' = Collect(hc, th')
    /\ gh' = Finished(GhostKeep(gh, hc), th'[t])
    /\ UNCHANGED <<fc, heap, legacy, hybridOn, aux, held>>

\* Lines 78-145 and 180-190: the enabled analyzers run, and the result is
\* put into the hybrid cache when there is one.
AnalyzeRun(t) ==
    /\ th[t].pc = "an_run"
    /\ LET issues == RunAnalyzers(allAnalyzers, Files[th[t].file], th[t].enabled)
           entry == Entry(FileHash[th[t].file], cloneIssues(issues))
           s == IF hybridOn THEN Put(Pair, heap, th[t].key, entry) ELSE Pair
       IN  /\ th' = [th EXCEPT ![t] =
                        [@ EXCEPT !.result = issues, !.nilResult = FALSE, !.ran = TRUE,
                                  !.elem = NoNode,
                                  !.pc = "an_legacy"]]
           /\ hc' = Collect(s.hc, th')
           /\ fc' = s.fc
           /\ gh' = IF hybridOn THEN GhostPut(gh, th[t].key, entry, hc, s.hc)
                    ELSE GhostKeep(gh, hc)
    /\ UNCHANGED <<heap, legacy, hybridOn, aux, held>>

\* Lines 193-203: the legacy cache is written in either case, and cleaned.
AnalyzeLegacy(t) ==
    /\ th[t].pc = "an_legacy"
    /\ legacy' = cleanCache(MapPut(legacy, th[t].key,
                    CacheEntry(FileHash[th[t].file], cloneIssues(th[t].result), 0)))
    /\ th' = [th EXCEPT ![t].pc = "done"]
    /\ gh' = Finished(GhostKeep(gh, hc), th'[t])
    /\ UNCHANGED <<hc, fc, heap, hybridOn, aux, held>>

\* The call returns and its locals are gone.
Return(t) ==
    /\ th[t].pc = "done"
    /\ th' = [th EXCEPT ![t] = IdleThread]
    /\ hc' = Collect(hc, th')
    /\ gh' = GhostKeep(gh, hc)
    /\ UNCHANGED <<fc, heap, legacy, hybridOn, aux, held>>

\* maxAge elapses.  Only the legacy cache reads the clock back, and only
\* without the hybrid cache is the legacy cache read: time is let pass there.
Tick ==
    /\ ~hybridOn
    /\ \E k \in DOMAIN legacy : legacy[k].Age <= MaxAge
    /\ legacy' = Older(legacy)
    /\ gh' = [GhostKeep(gh, hc) EXCEPT !.lastRun.age = IF @ >= MaxAge THEN @ ELSE @ + 1]
    /\ UNCHANGED <<hc, fc, heap, hybridOn, aux, th, held>>

(***************************************************************************)
(* The disk store called directly, by a caller that keeps the pointers it  *)
(* passes in and the records it gets.                                      *)
(***************************************************************************)
DeepRecord(h, r) ==
    [Path |-> r.Path, Hash |-> r.Hash, Issues |-> DeepIssues(h, r.Issues),
     Ignored |-> r.Ignored]

\* What reads of the two tiers return, by value.
CacheView(h) ==
    [disk |-> [i \in DOMAIN fc.data.Files |-> DeepRecord(h, fc.data.Files[i])],
     mem  |-> [k \in DOMAIN hc.memCache |->
                 [Hash |-> hc.items[hc.memCache[k]].entry.Hash,
                  Issues |-> DeepIssues(h, hc.items[hc.memCache[k]].entry.Issues)]]]

HeldView(h) == DeepRecord(h, held.rec)

DSaveFileRecord(key, hash, issues) ==
    /\ fc' = SaveFileRecord(fc, heap, key, hash, issues)
    /\ gh' = GhostKeep(gh, hc)
    /\ UNCHANGED <<hc, heap, legacy, hybridOn, aux, th, held>>

DSaveRawRecord(key, entry) ==
    /\ fc' = SaveRawRecord(fc, heap, key, entry)
    /\ gh' = GhostKeep(gh, hc)
    /\ UNCHANGED <<hc, heap, legacy, hybridOn, aux, th, held>>

DGetFileRecord(key) ==
    /\ GetFileRecord(fc, key) # NotFound
    /\ held' = [has |-> TRUE, rec |-> GetFileRecord(fc, key)]
    /\ gh' = [GhostKeep(gh, hc) EXCEPT
                !.heldSnap = [set |-> TRUE, val |-> DeepRecord(heap, GetFileRecord(fc, key))]]
    /\ UNCHANGED <<hc, fc, heap, legacy, hybridOn, aux, th>>

DIgnoreIssue(key, issueID) ==
    /\ fc' = IgnoreIssue(fc, heap, key, issueID).fc
    /\ heap' = IgnoreIssue(fc, heap, key, issueID).heap
    /\ gh' = [GhostKeep(gh, hc) EXCEPT
                !.ignoredEver[key] = IF FindRecord(fc.data.Files, key) # 0
                                     THEN @ \cup {issueID} ELSE @]
    /\ UNCHANGED <<hc, legacy, hybridOn, aux, th, held>>

DMarkIssueFixed(key, issueID) ==
    /\ fc' = MarkIssueFixed(fc, heap, key, issueID).fc
    /\ heap' = MarkIssueFixed(fc, heap, key, issueID).heap
    /\ gh' = GhostKeep(gh, hc)
    /\ UNCHANGED <<hc, legacy, hybridOn, aux, th, held>>

DClearCache ==
    /\ fc' = ClearCache(fc, heap)
    /\ gh' = [GhostKeep(gh, hc) EXCEPT !.ignoredEver = [k \in Keys |-> {}]]
    /\ UNCHANGED <<hc, heap, legacy, hybridOn, aux, th, held>>

\* The caller writes to an Issue of the record it got from GetFileRecord.
DMutateHeld(addr) ==
    /\ held.has
    /\ addr \in Range(held.rec.Issues)
    /\ heap[addr].Message = "found"
    /\ heap' = [heap EXCEPT ![addr].Message = "edited"]
    /\ gh' = [gh EXCEPT !.evict = NoEvict,
                        !.cacheSnap = [set |-> TRUE, val |-> CacheView(heap)],
                        !.heldSnap = [set |-> TRUE, val |-> DeepRecord(heap', held.rec)]]
    /\ UNCHANGED <<hc, fc, legacy, hybridOn, aux, th, held>>

\* The caller writes to an Issue it passed to SaveFileRecord or Put before.
DMutateGiven(addr) ==
    /\ \/ \E i \in DOMAIN fc.data.Files : addr \in Range(fc.data.Files[i].Issues)
       \/ \E k \in DOMAIN hc.memCache : addr \in Range(hc.items[hc.memCache[k]].entry.Issues)
    /\ heap[addr].Message = "found"
    /\ heap' = [heap EXCEPT ![addr].Message = "edited"]
    /\ gh' = [gh EXCEPT !.evict = NoEvict,
                        !.cacheSnap = [set |-> TRUE, val |-> CacheView(heap)],
                        !.heldSnap = IF held.has
                                     THEN [set |-> TRUE, val |-> DeepRecord(heap', held.rec)]
                                     ELSE @]
    /\ UNCHANGED <<hc, fc, legacy, hybridOn, aux, th, held>>

(***************************************************************************)
(* The specifications.  Each draws the calls' arguments from its own small *)
(* sets.                                                                   *)
(***************************************************************************)
EntryOf(f, e) == Entry(FileHash[f], cloneIssues(RunAnalyzers(allAnalyzers, Files[f], e)))

PutEntries == {EntryOf("small", NilMap), EntryOf("grown", NilMap)}

Main == "g1"

\* LruSpec: HybridCache's own operations, called one after the other.
LruNext ==
    \/ \E key \in Keys : CallGet(Main, key)
    \/ GetHit(Main)
    \/ GetDisk(Main)
    \/ GetPromote(Main)
    \/ \E key \in Keys, entry \in PutEntries : CallPut(Main, key, entry)
    \/ CallFlush(Main)
    \/ CallClear(Main)
    \/ ClearDisk(Main)

LruSpec == Init /\ [][LruNext]_vars

\* AnalyzeSpec: Analyze called one call after the other, with or without
\* the hybrid cache, Flush and Clear in between, and time passing.
AnalyzeKeys == {"a.go", "b.go"}

AnalyzeNext ==
    \/ \E key \in AnalyzeKeys, file \in FileNames \cup {NilFile}, enabled \in EnabledChoices :
          CallAnalyze(Main, key, file, enabled)
    \/ GetHit(Main)
    \/ GetDisk(Main)
    \/ GetPromote(Main)
    \/ AnalyzeCompare(Main)
    \/ AnalyzeClone(Main)
    \/ AnalyzeRun(Main)
    \/ AnalyzeLegacy(Main)
    \/ CallFlush(Main)
    \/ CallClear(Main)
    \/ ClearDisk(Main)
    \/ Return(Main)
    \/ Tick

AnalyzeSpec == InitAnalyze /\ [][AnalyzeNext]_vars

\* DiskSpec: the disk store called directly, and through Put and Flush of
\* the hybrid cache, for one path.
DiskKey == "a.go"
IssueIDs == {"i1", "i2"}
FixedIDs == {"i2"}

DiskNext ==
    \/ \E entry \in PutEntries : DSaveFileRecord(DiskKey, entry.Hash, entry.Issues)
    \/ \E entry \in PutEntries : DSaveRawRecord(DiskKey, entry)
    \/ DGetFileRecord(DiskKey)
    \/ \E id \in IssueIDs : DIgnoreIssue(DiskKey, id)
    \/ \E id \in FixedIDs : DMarkIssueFixed(DiskKey, id)
    \/ DClearCache
    \/ \E addr \in Addrs : DMutateHeld(addr)
    \/ \E addr \in Addrs : DMutateGiven(addr)
    \/ \E entry \in PutEntries : CallPut(Main, DiskKey, entry)
    \/ CallFlush(Main)

DiskSpec == InitWith(<<>>, TRUE) /\ [][DiskNext]_vars

\* Spec: goroutines calling the hybrid cache concurrently; they read one
\* path and write two.
ConcKeys == {"a.go", "b.go"}
GetKeys == {"a.go"}

Step(t) ==
    \/ \E key \in GetKeys : CallGet(t, key)
    \/ GetHit(t)
    \/ GetDisk(t)
    \/ GetPromote(t)
    \/ \E key \in ConcKeys, entry \in PutEntries : CallPut(t, key, entry)
    \/ CallFlush(t)
    \/ CallClear(t)
    \/ ClearDisk(t)

Next == \E t \in Threads : Step(t)

Spec == Init /\ [][Next]_vars

\* RaceSpec: goroutines calling Analyze concurrently for one path (the
\* parallel driver given a duplicate path).
RaceFiles == {"small", "grown"}

RaceStep(t) ==
    \/ \E file \in RaceFiles : CallAnalyze(t, "a.go", file, NilMap)
    \/ GetHit(t)
    \/ GetDisk(t)
    \/ GetPromote(t)
    \/ AnalyzeCompare(t)
    \/ AnalyzeClone(t)
    \/ AnalyzeRun(t)
    \/ AnalyzeLegacy(t)
    \/ Return(t)

RaceNext == \E t \in Threads : RaceStep(t)

RaceSpec == Init /\ [][RaceNext]_vars

(***************************************************************************)
(* Properties of Analyze.                                                  *)
(***************************************************************************)
Returned(t) == th[t].pc = "done" /\ th[t].op = "Analyze"

FreshEntry(t) ==
    Entry(FileHash[th[t].file],
          cloneIssues(RunAnalyzers(allAnalyzers, Files[th[t].file], th[t].enabled)))

\* C1 (cache coherency): when Analyze(path, tree, S) has returned, the cache
\* has not been modified since, and either the hybrid cache was constructed
\* or less than maxAge has passed since that call, a second
\* Analyze(path, tree, S) returns a list deeply equal to the first and
\* invokes no rule.
C1_CacheCoherency ==
    \A t \in Threads :
        Returned(t) /\ th[t].expect.set
            => /\ DeepIssues(heap, th[t].result) = th[t].expect.val
               /\ ~th[t].ran

\* A second call of a tree that has issues was answered from the hybrid cache.
C1_Witness ==
    \E t \in Threads :
        /\ Returned(t) /\ th[t].expect.set /\ hybridOn
        /\ th[t].file # NilFile /\ th[t].result # <<>> /\ ~th[t].ran

\* C1 as stated, whatever time has passed between the two calls.
C1_Original ==
    \A t \in Threads :
        Returned(t) /\ th[t].expectAny.set
            => /\ DeepIssues(heap, th[t].result) = th[t].expectAny.val
               /\ ~th[t].ran

\* C2 (cache invalidation): a call that ran no rule found an entry whose
\* hash is the fingerprint of its tree; a call that found an entry with
\* another hash ran the enabled rules, returned their result and not the
\* stored one, and left the fresh fingerprint and result under the path.
C2_CacheInvalidation ==
    \A t \in Threads :
        Returned(t) /\ th[t].file # NilFile
            => /\ ~th[t].ran => th[t].seen = FileHash[th[t].file]
               /\ th[t].seen # <<>> /\ th[t].seen # FileHash[th[t].file]
                    => /\ th[t].ran
                       /\ th[t].result =
                            RunAnalyzers(allAnalyzers, Files[th[t].file], th[t].enabled)
                       /\ IF hybridOn
                          THEN /\ th[t].key \in DOMAIN hc.memCache
                               /\ hc.items[hc.memCache[th[t].key]].entry = FreshEntry(t)
                          ELSE /\ th[t].key \in DOMAIN legacy
                               /\ Entry(legacy[th[t].key].Hash, legacy[th[t].key].Issues)
                                    = FreshEntry(t)

\* A call found the entry of another tree, whose issues differ, and
\* superseded it.
C2_Witness ==
    \E t \in Threads :
        /\ Returned(t) /\ th[t].file = "small" /\ th[t].ran /\ hybridOn
        /\ th[t].seen = FileHash["grown"]
        /\ hc.items[hc.memCache[th[t].key]].entry = FreshEntry(t)

\* C3 (concurrent safety of the orchestrator): every call that returns
\* through the cache-hit path returns issues that were stored together with
\* a hash equal to the fingerprint of its own tree.
C3_HitPairsHashWithIssues ==
    \A t \in Threads :
        Returned(t) /\ th[t].file # NilFile /\ ~th[t].ran
            => th[t].pair = FileHash[th[t].file]

(***************************************************************************)
(* Properties of the hybrid cache.                                         *)
(***************************************************************************)
LruKeys == [i \in DOMAIN hc.lru |-> hc.items[hc.lru[i]].key]

InMemory(key) == key \in DOMAIN hc.memCache

MemEntry(key) == hc.items[hc.memCache[key]].entry

\* The disk store holds a record of the key with the hash and the issues of
\* the entry, in its data and in cache.json.
OnDisk(key) ==
    /\ FindRecord(fc.data.Files, key) # 0
    /\ \E i \in DOMAIN fc.file.files : fc.file.files[i].path = key

DiskHolds(key, entry) ==
    /\ FindRecord(fc.data.Files, key) # 0
    /\ LET r == GetFileRecord(fc, key)
       IN  r.Hash = entry.Hash /\ DeepIssues(heap, r.Issues) = DeepIssues(heap, entry.Issues)
    /\ \E i \in DOMAIN fc.file.files :
          /\ fc.file.files[i].path = key
          /\ fc.file.files[i].hash = entry.Hash
          /\ fc.file.files[i].issues = DeepIssues(heap, entry.Issues)

C6_NoLostUpdate ==
    gh.flushed /\ gh.hist # "any"
        => \A key \in Keys :
              gh.lastPut[key].set
                => /\ DiskHolds(key, gh.lastPut[key].entry)
                   /\ InMemory(key) => MemEntry(key) = gh.lastPut[key].entry

\* C7 (LRU structure): the key-to-node map and the list are in bijection.
C7_MapListBijection ==
    /\ \A key \in DOMAIN hc.memCache :
          /\ hc.memCache[key] \in Range(hc.lru)
          /\ hc.items[hc.memCache[key]].key = key
    /\ \A n \in Range(hc.lru) :
          /\ hc.items[n].key \in DOMAIN hc.memCache
          /\ hc.memCache[hc.items[n].key] = n
    /\ \A i, j \in DOMAIN hc.lru : LruKeys[i] = LruKeys[j] => i = j

\* C8 (LRU recency order): in a sequential history the list holds the
\* resident keys in the order of their most recent Get hit, Put or promotion
\* from disk, the latest first, and the victim of an eviction is the
\* resident key whose most recent use is the oldest.
C8_RecencyOrder ==
    /\ LruKeys = gh.recency
    /\ gh.evict.set => gh.evict.victim = gh.evict.oldest

\* An insertion into the full cache evicted, after a Get hit had reordered
\* the list.
C8_Witness ==
    /\ gh.evict.set /\ gh.hist = "calls"
    /\ gh.evict.victim = gh.evict.oldest
    /\ Len(hc.lru) = MaxItems

(***************************************************************************)
(* Properties of the disk store.                                           *)
(***************************************************************************)
\* C9 (the ignored list survives overwrite): an issue ID added to a path's
\* ignored list by IgnoreIssue is in the ignored list of the path's record
\* after every later SaveFileRecord and SaveRawRecord, until ClearCache.
C9_IgnoredSurvives ==
    \A key \in Keys : \A id \in gh.ignoredEver[key] : IsIssueIgnored(fc, key, id)

\* C10 (cache isolation): after a caller has written to an Issue it got from
\* or gave to a cache, both tiers return what they returned before; and the
\* record a caller got from GetFileRecord keeps its value whatever the cache
\* does afterwards.
C10_Isolation ==
    /\ gh.cacheSnap.set => CacheView(heap) = gh.cacheSnap.val
    /\ held.has => HeldView(heap) = gh.heldSnap.val

(***************************************************************************)
(* cmd: the run command over one project, run after run.  Each run is a    *)
(* process: it opens the disk cache of the project (cache.New), analyzes   *)
(* every file of the target (analyzeFile, by a pool of workers, so in any  *)
(* order), prints the issues and exits.  Between runs the user edits       *)
(* files.  The statistics of the cache are left out: no run reads them.    *)
(***************************************************************************)
CliIssue(id, type, line, severity) ==
    [ID |-> id, Type |-> type, Line |-> line, Severity |-> severity]

\* What the text of a file holds: the issues the enabled rules find in it
\* and its comments.
Sources ==
    [clean  |-> [issues |-> <<>>, comments |-> <<>>],
     medium |-> [issues |-> <<CliIssue("", "SliceCapacity", 5, "Medium")>>, comments |-> <<>>],
     high   |-> [issues |-> <<CliIssue("", "HTTPNoTimeout", 4, "High"),
                              CliIssue("", "SliceCapacity", 5, "Medium")>>,
                 comments |-> <<>>],
     hushed |-> [issues |-> <<CliIssue("", "HTTPNoTimeout", 4, "High")>>,
                 comments |-> <<Comment(<<"//", " ", "abc:ignore">>, 3)>>]]

SourceNames == DOMAIN Sources

CliPaths == {"a.go", "b.go"}

\* CalculateFileHash: the SHA-256 of the text, taken to tell texts apart.
CalculateFileHash(src) == <<"sha256", src>>

\* IssueType.String(): the name of the category, one piece.
TypeString(type) == <<type>>

\* The *ast.File handed to the filter: nil, or a parsed file with its
\* comments.  The *token.FileSet comes with it and is nil when it is.
NilAstFile == [isNil |-> TRUE, Comments |-> <<>>]

AstFile(comments) == [isNil |-> FALSE, Comments |-> comments]

\* A nil *models.Issue in a list of issues.
NilIssue == [ID |-> "nil", Type |-> "", Line |-> 0, Severity |-> ""]

\* A faulty variant: the issues that stay come out in the opposite order.
FilterIssuesReversed(issues, file) ==
    IF file.isNil THEN issues
    ELSE LET ic == NewIgnoreChecker(file.Comments)
             kept == SelectSeq(issues, LAMBDA issue :
                        /\ issue # NilIssue
                        /\ ~ShouldIgnore(ic, TypeString(issue.Type), issue.Line))
         IN  [i \in DOMAIN kept |-> kept[Len(kept) + 1 - i]]

\* FilterIssuesByComments: with a nil file the list itself; otherwise the
\* issues that are not nil and that the checker does not ignore, in the
\* order of the list.
FilterIssuesByComments(issues, file) ==
    IF file.isNil THEN issues
    ELSE LET ic == NewIgnoreChecker(file.Comments)
         IN  SelectSeq(issues, LAMBDA issue :
                 /\ issue # NilIssue
                 /\ ~ShouldIgnore(ic, TypeString(issue.Type), issue.Line))

isIssueIgnored(issueID, ignoredIDs) == \E i \in DOMAIN ignoredIDs : ignoredIDs[i] = issueID

\* The copy takes the line, the category and the texts of the stored issue;
\* it takes neither its ID nor its severity.
convertDBIssueToAnalyzerIssue(dbIssue) ==
    CliIssue("", dbIssue.Type, dbIssue.Line, "Medium")

reconstructIssuesFromCache(record) ==
    LET kept == SelectSeq(record.Issues, LAMBDA dbIssue : ~isIssueIgnored(dbIssue.ID, record.Ignored))
    IN  [i \in DOMAIN kept |-> convertDBIssueToAnalyzerIssue(kept[i])]

\* IsFileChanged: no record of the path, or a record with another hash.
IsFileChanged(files, filename, src) ==
    \/ FindRecord(files, filename) = 0
    \/ files[FindRecord(files, filename)].Hash # CalculateFileHash(src)

loadCachedIssues(files, noCache, filename, src) ==
    IF noCache \/ IsFileChanged(files, filename, src)
    THEN [found |-> FALSE, issues |-> <<>>]
    ELSE [found |-> TRUE,
          issues |-> reconstructIssuesFromCache(files[FindRecord(files, filename)])]

\* saveToCacheDB, SaveFileRecord: the record of the path is replaced, its
\* ignored list kept.
saveToCacheDB(files, noCache, filename, src, issues) ==
    IF noCache THEN files
    ELSE LET i == FindRecord(files, filename)
             oldIgnored == IF i = 0 THEN <<>> ELSE files[i].Ignored
         IN  Append(RemoveRecord(files, filename),
                    FileRecord(filename, CalculateFileHash(src), issues, oldIgnored))

\* The issues a run without a cache reports for the file.
FreshIssues(src) == FilterIssuesByComments(Sources[src].issues, AstFile(Sources[src].comments))

countBySeverity(issues) ==
    [high   |-> Cardinality({i \in DOMAIN issues : issues[i].Severity = "High"}),
     medium |-> Cardinality({i \in DOMAIN issues : issues[i].Severity = "Medium"}),
     low    |-> Cardinality({i \in DOMAIN issues : issues[i].Severity = "Low"})]

\* os.Exit(1) when a High issue was reported, a normal return otherwise.
ExitCode(issues) == IF countBySeverity(issues).high > 0 THEN 1 ELSE 0

CliStart ==
    [pc |-> "idle", src |-> [p \in CliPaths |-> "clean"], files |-> <<>>, noCache |-> FALSE,
     todo |-> {}, out |-> <<>>, fresh |-> <<>>, hits |-> 0, exit |-> 0]

CliInit == CoreInit /\ cli = CliStart /\ dsk = NoDsk /\ lk = NoLk /\ pf = NoPf /\ wp = NoWp /\ st = NoSt

\* The user edits a file between two runs.
CliEdit(p, src) ==
    /\ cli.pc \in {"idle", "exited"}
    /\ cli.src[p] # src
    /\ cli' = [cli EXCEPT !.src[p] = src]
    /\ UNCHANGED <<core, dsk, lk, pf, wp, st>>

\* The run command up to analyzeTarget.
CliRun(noCache, clearCache) ==
    /\ cli.pc \in {"idle", "exited"}
    /\ cli' = [cli EXCEPT !.pc = "running", !.noCache = noCache,
                          !.files = IF ~noCache /\ clearCache THEN <<>> ELSE @,
                          !.todo = CliPaths, !.out = <<>>, !.fresh = <<>>, !.hits = 0,
                          !.exit = 0]
    /\ UNCHANGED <<core, dsk, lk, pf, wp, st>>

\* analyzeFile by one worker, and the append of its issues to the result.
analyzeFile(p) ==
    /\ cli.pc = "running"
    /\ p \in cli.todo
    /\ LET cached == loadCachedIssues(cli.files, cli.noCache, p, cli.src[p])
           allIssues == FreshIssues(cli.src[p])
       IN  cli' = [cli EXCEPT
                     !.todo = @ \ {p},
                     !.out = @ \o (IF cached.found THEN cached.issues ELSE allIssues),
                     !.fresh = @ \o allIssues,
                     !.hits = IF cached.found THEN @ + 1 ELSE @,
                     !.files = IF cached.found THEN @
                               ELSE saveToCacheDB(@, cli.noCache, p, cli.src[p], allIssues)]
    /\ UNCHANGED <<core, dsk, lk, pf, wp, st>>

\* The end of the run command: the count by severity and the exit code.
CliExit ==
    /\ cli.pc = "running"
    /\ cli.todo = {}
    /\ cli' = [cli EXCEPT !.pc = "exited", !.exit = ExitCode(cli.out)]
    /\ UNCHANGED <<core, dsk, lk, pf, wp, st>>

CliNext ==
    \/ \E p \in CliPaths, src \in SourceNames : CliEdit(p, src)
    \/ \E noCache \in BOOLEAN, clearCache \in BOOLEAN : CliRun(noCache, clearCache)
    \/ \E p \in CliPaths : analyzeFile(p)
    \/ CliExit

CliSpec == CliInit /\ [][CliNext]_vars

\* C11 (the cache never changes the exit code): when a run of the command
\* has exited, its exit code is the one the same run would have had with
\* every file analyzed afresh: non-zero exactly when a fresh analysis of
\* the target reports a High issue.
C11_ExitCodeUnchanged ==
    cli.pc = "exited" => cli.exit = ExitCode(cli.fresh)

(***************************************************************************)
(* cache.FileCache and its files: New and load, the operations of one      *)
(* instance, and saveUnsafe step by step, with the process crashing at any *)
(* point.  A file is a sequence of chunks, each a part of the document it  *)
(* was written from; a document is what json.Marshal makes of CacheData:   *)
(* the version, the records (a record is its path, or null) and the        *)
(* statistics (present or null).                                           *)
(***************************************************************************)
ChunkCount == 2
\* chunks os.WriteFile writes a document in

CacheVersion == "1.0"

NullRecord == [nil |-> TRUE, Path |-> ""]

StoreRecord(path) == [nil |-> FALSE, Path |-> path]

CacheData(version, files, stats) == [Version |-> version, Files |-> files, Stats |-> stats]

\* The CacheData New constructs, and ClearCache after it.
FreshData == CacheData(CacheVersion, <<>>, TRUE)

NoDoc == CacheData("", <<>>, FALSE)

AbsentFile == [exists |-> FALSE, bytes |-> <<>>]

EmptyFile == [exists |-> TRUE, bytes |-> <<>>]

Chunk(doc, part) == [doc |-> doc, part |-> part]

FullFile(doc) == [exists |-> TRUE, bytes |-> [i \in 1..ChunkCount |-> Chunk(doc, i)]]

\* A file that is no JSON document.
GarbageFile == [exists |-> TRUE, bytes |-> <<Chunk(NoDoc, 0)>>]

\* json.Decoder.Decode succeeds on the complete text of a document only.
Decodable(file) ==
    /\ file.exists
    /\ file.bytes # <<>>
    /\ file = FullFile(file.bytes[1].doc)

\* load: the data the store holds after New on this cache.json.
load(file) ==
    IF ~file.exists THEN FreshData
    ELSE IF ~Decodable(file) THEN FreshData
    ELSE IF file.bytes[1].doc.Version # CacheVersion THEN FreshData
    ELSE file.bytes[1].doc

\* What cache.json may hold when New is called.
StartContents ==
    {AbsentFile, GarbageFile,
     FullFile(CacheData("0.9", <<StoreRecord("a.go")>>, TRUE)),
     FullFile(CacheData(CacheVersion, <<StoreRecord("a.go")>>, TRUE)),
     FullFile(CacheData(CacheVersion, <<StoreRecord("a.go")>>, FALSE)),
     FullFile(CacheData(CacheVersion, <<NullRecord>>, TRUE))}

StorePaths == {"a.go", "b.go"}

\* The loops `for _, r := range fc.data.Files { if r.Path == filePath`:
\* they dereference every record up to the first one of the path.
ScanPanics(files, path) ==
    \E i \in DOMAIN files :
        /\ files[i].nil
        /\ \A j \in 1..(i - 1) : files[j].Path # path

\* updateStats reads fc.data.Stats and every record.
StatsPanics(data) == ~data.Stats \/ \E i \in DOMAIN data.Files : data.Files[i].nil

\* os.OpenFile(tempFile, O_WRONLY|O_CREATE|O_TRUNC) of a faulty variant that
\* opens cache.json itself.
OpenTempInPlace(d) == [d EXCEPT !.cache = EmptyFile, !.tmp = EmptyFile]

\* os.WriteFile(tempFile, ...): the file is created or truncated.
OpenTemp(d) == [d EXCEPT !.tmp = EmptyFile]

\* saveUnsafe up to the first write: the document is marshalled and the
\* temp file opened.
BeginSave(d, data, op) ==
    [OpenTemp(d) EXCEPT !.pc = "writing", !.data = data, !.prev = d.cache,
                        !.new = data, !.last = op]

StoreStart(file) ==
    [pc |-> "closed", cache |-> file, tmp |-> AbsentFile, data |-> FreshData,
     start |-> file, prev |-> file, new |-> NoDoc, last |-> "none"]

StoreInit ==
    /\ CoreInit
    /\ cli = NoCli /\ lk = NoLk /\ pf = NoPf /\ wp = NoWp /\ st = NoSt
    /\ \E file \in StartContents : dsk = StoreStart(file)

\* cache.New: the directory exists, the data are constructed, load is called
\* and its error is only logged.
StoreNew ==
    /\ dsk.pc = "closed"
    /\ dsk' = [dsk EXCEPT !.pc = "open", !.data = load(dsk.cache), !.start = dsk.cache,
                          !.prev = dsk.cache, !.new = NoDoc, !.last = "New"]
    /\ UNCHANGED <<core, cli, lk, pf, wp, st>>

StoreGetFileRecord(path) ==
    /\ dsk.pc = "open"
    /\ dsk' = [dsk EXCEPT !.pc = IF ScanPanics(dsk.data.Files, path) THEN "panicked" ELSE @,
                          !.last = "GetFileRecord"]
    /\ UNCHANGED <<core, cli, lk, pf, wp, st>>

StoreGetStats ==
    /\ dsk.pc = "open"
    /\ dsk' = [dsk EXCEPT !.pc = IF ~dsk.data.Stats THEN "panicked" ELSE @,
                          !.last = "GetStats"]
    /\ UNCHANGED <<core, cli, lk, pf, wp, st>>

\* SaveFileRecord up to the first write of saveUnsafe.
StoreSaveFileRecord(path) ==
    /\ dsk.pc = "open"
    /\ LET files == dsk.data.Files
           data == [dsk.data EXCEPT !.Files = Append(RemoveRecord(files, path), StoreRecord(path)),
                                    !.Stats = TRUE]
       IN  dsk' = IF ScanPanics(files, path) \/ StatsPanics([dsk.data EXCEPT !.Files = data.Files])
                  THEN [dsk EXCEPT !.pc = "panicked", !.last = "SaveFileRecord"]
                  ELSE BeginSave(dsk, data, "SaveFileRecord")
    /\ UNCHANGED <<core, cli, lk, pf, wp, st>>

StoreClearCache ==
    /\ dsk.pc = "open"
    /\ dsk' = BeginSave(dsk, FreshData, "ClearCache")
    /\ UNCHANGED <<core, cli, lk, pf, wp, st>>

\* Close, save.
StoreClose ==
    /\ dsk.pc = "open"
    /\ dsk' = BeginSave(dsk, dsk.data, "Close")
    /\ UNCHANGED <<core, cli, lk, pf, wp, st>>

\* One write of os.WriteFile to the temp file.
WriteChunk ==
    /\ dsk.pc = "writing"
    /\ Len(dsk.tmp.bytes) < ChunkCount
    /\ dsk' = [dsk EXCEPT !.tmp.bytes = Append(@, Chunk(dsk.new, Len(@) + 1))]
    /\ UNCHANGED <<core, cli, lk, pf, wp, st>>

\* os.WriteFile fails (the disk is full): saveUnsafe returns the error.
WriteFails ==
    /\ dsk.pc = "writing"
    /\ Len(dsk.tmp.bytes) < ChunkCount
    /\ dsk' = [dsk EXCEPT !.pc = "open", !.last = "write_failed"]
    /\ UNCHANGED <<core, cli, lk, pf, wp, st>>

\* os.Rename(tempFile, cacheFile) succeeds.
Rename ==
    /\ dsk.pc = "writing"
    /\ Len(dsk.tmp.bytes) = ChunkCount
    /\ dsk' = [dsk EXCEPT !.pc = "open", !.cache = dsk.tmp, !.tmp = AbsentFile,
                          !.last = "saved"]
    /\ UNCHANGED <<core, cli, lk, pf, wp, st>>

\* os.Rename fails: the temp file is removed and the error returned.
RenameFails ==
    /\ dsk.pc = "writing"
    /\ Len(dsk.tmp.bytes) = ChunkCount
    /\ dsk' = [dsk EXCEPT !.pc = "open", !.tmp = AbsentFile, !.last = "rename_failed"]
    /\ UNCHANGED <<core, cli, lk, pf, wp, st>>

\* The process dies: the files stay as they are, the data are gone.
Crash ==
    /\ dsk.pc \in {"open", "writing", "panicked"}
    /\ dsk' = [dsk EXCEPT !.pc = "closed", !.data = FreshData,
                          !.last = IF dsk.pc = "writing" THEN "crash" ELSE "exit"]
    /\ UNCHANGED <<core, cli, lk, pf, wp, st>>

StoreNext ==
    \/ StoreNew
    \/ \E path \in StorePaths : StoreGetFileRecord(path)
    \/ StoreGetStats
    \/ \E path \in StorePaths : StoreSaveFileRecord(path)
    \/ StoreClearCache
    \/ StoreClose
    \/ WriteChunk
    \/ WriteFails
    \/ Rename
    \/ RenameFails
    \/ Crash

StoreSpec == StoreInit /\ [][StoreNext]_vars

\* C12 (atomic replace-on-write): at every point of a save, after a save
\* and after a crash at any point of it, cache.json holds the complete
\* document it held when the save began or the complete document being
\* saved, never a part of one; after a failed rename it holds the document
\* it held when the save began.
C12_AtomicReplace ==
    /\ dsk.cache = dsk.prev \/ dsk.cache = FullFile(dsk.new)
    /\ Decodable(dsk.prev) => Decodable(dsk.cache)
    /\ dsk.last \in {"rename_failed", "write_failed"} => dsk.cache = dsk.prev
    /\ dsk.last = "saved" => dsk.cache = FullFile(dsk.new)

\* A crash in the middle of the write of a document that differs from the
\* one cache.json holds.
C12_Witness ==
    /\ dsk.last = "crash"
    /\ dsk.tmp.exists
    /\ Len(dsk.tmp.bytes) \in 1..(ChunkCount - 1)
    /\ Decodable(dsk.prev)
    /\ FullFile(dsk.new) # dsk.prev

\* C13 (opening the disk store never fails hard): New on an absent, an
\* undecodable or a version-mismatched cache.json returns a store with no
\* records, the records of the file are adopted only when it decodes and
\* its version is CacheVersion, and no operation on the store New returned
\* panics.
C13_OpenNeverFails ==
    /\ dsk.last = "New" =>
          IF Decodable(dsk.start) /\ dsk.start.bytes[1].doc.Version = CacheVersion
          THEN dsk.data.Files = dsk.start.bytes[1].doc.Files
          ELSE dsk.data.Files = <<>>
    /\ dsk.pc # "panicked"

(***************************************************************************)
(* The locks of the two caches.  hc.mu and fc.mu are sync.RWMutex: Lock    *)
(* first announces the writer, which stops new readers, and returns once   *)
(* the readers have left; RLock waits while a writer holds or has          *)
(* announced.  Each operation is the sequence of the lock, channel and     *)
(* ticker calls it makes; where the calls depend on the contents of the    *)
(* cache (a hit or a miss, a dirty victim, the number of dirty keys) every *)
(* sequence the code can take is a program of the operation.               *)
(***************************************************************************)
Clients == {"c1", "c2"}

Background == "bg"

LkThreads == Clients \cup {Background}

Mutex == [w |-> "none", granted |-> FALSE, r |-> {}]

\* One call: k the call, mu the mutex it is made on, via whether it is made
\* inside a FileCache method that HybridCache called, ev the stage of Close
\* it completes.
Instr(k, mu, via, ev) == [k |-> k, mu |-> mu, via |-> via, ev |-> ev]

\* A FileCache method that takes fc.mu.Lock (SaveRawRecord, save, ClearCache,
\* SaveFileRecord) or fc.mu.RLock (GetFileRecord, GetStats); via tells
\* whether HybridCache makes the call.
DiskWrite(via, ev) == <<Instr("Lock", "fc", via, ""), Instr("Unlock", "fc", via, ev)>>

DiskRead(via) == <<Instr("RLock", "fc", via, ""), Instr("RUnlock", "fc", via, "")>>

\* evictOldest: nothing to write, or flushItem of a dirty victim.
EvictPrograms == {<<>>, DiskWrite(TRUE, "")}

GetPrograms ==
    LET lookup == <<Instr("RLock", "hc", FALSE, ""), Instr("RUnlock", "hc", FALSE, "")>>
        locked(body) == <<Instr("Lock", "hc", FALSE, "")>> \o body \o
                        <<Instr("Unlock", "hc", FALSE, "")>>
    IN  {lookup \o locked(<<>>), lookup \o DiskRead(TRUE)}
        \cup {lookup \o DiskRead(TRUE) \o locked(e) : e \in EvictPrograms}

PutPrograms ==
    {<<Instr("Lock", "hc", FALSE, "")>> \o e \o <<Instr("Unlock", "hc", FALSE, "")>> :
        e \in EvictPrograms}

MaxDirty == 1
\* dirty keys Flush finds in memory

RECURSIVE FlushItemCalls(_)
FlushItemCalls(n) == IF n = 0 THEN <<>> ELSE DiskWrite(TRUE, "") \o FlushItemCalls(n - 1)

\* Flush: flushItem for every dirty key in memory, then diskCache.save,
\* all under hc.mu.
FlushPrograms(ev) ==
    {<<Instr("Lock", "hc", FALSE, "")>> \o FlushItemCalls(n) \o DiskWrite(TRUE, "") \o
     <<Instr("Unlock", "hc", FALSE, ev)>> : n \in 0..MaxDirty}

StatsProgramDiskFirst ==
    <<Instr("RLock", "fc", TRUE, ""), Instr("Lock", "hc", FALSE, ""),
      Instr("Unlock", "hc", FALSE, ""), Instr("RUnlock", "fc", TRUE, "")>>

StatsProgram ==
    <<Instr("RLock", "hc", FALSE, "")>> \o DiskRead(TRUE) \o <<Instr("RUnlock", "hc", FALSE, "")>>

ClearProgram ==
    <<Instr("Lock", "hc", FALSE, ""), Instr("Unlock", "hc", FALSE, "")>> \o DiskWrite(TRUE, "")

CloseSignals == <<Instr("close", "", FALSE, "stop"), Instr("Stop", "", FALSE, "ticker")>>

\* A faulty variant: the final flush is made before the stop signal.
ClosePrefixFlushFirst(flush) == flush \o CloseSignals

\* Close up to the end of the final flush.
ClosePrefix(flush) == CloseSignals \o flush

\* Close: the final flush returns an error and Close returns it, or
\* diskCache.Close follows.
ClosePrograms ==
    {ClosePrefix(f) \o <<Instr("return", "", FALSE, "failed")>> : f \in FlushPrograms("flush")}
    \cup {ClosePrefix(f) \o DiskWrite(TRUE, "close") : f \in FlushPrograms("flush")}

\* FileCache called by others than the hybrid cache: SaveFileRecord,
\* GetFileRecord, IsFileChanged.
DiskPrograms ==
    {DiskWrite(FALSE, ""), DiskRead(FALSE), DiskRead(FALSE) \o DiskWrite(FALSE, "")}

LkIdle == [op |-> "none", prog |-> <<>>]

LkStart ==
    [mu |-> [m \in {"hc", "fc"} |-> Mutex],
     t |-> [x \in LkThreads |-> IF x = Background THEN [op |-> "select", prog |-> <<>>] ELSE LkIdle],
     stop |-> FALSE, ticker |-> TRUE, tick |-> FALSE,
     log |-> <<>>, close |-> "no"]

LockInit == CoreInit /\ cli = NoCli /\ dsk = NoDsk /\ pf = NoPf /\ lk = LkStart /\ wp = NoWp /\ st = NoSt

Holds(t, m) == (lk.mu[m].w = t /\ lk.mu[m].granted) \/ t \in lk.mu[m].r

Head0(t) == Head(lk.t[t].prog)

\* The thread returns from the call at the head of its program.
Advance(t) ==
    LET rest == Tail(lk.t[t].prog)
        ev == Head0(t).ev
        done == rest = <<>>
    IN  [lk EXCEPT
            !.t[t] = IF done /\ t = Background THEN [op |-> "select", prog |-> <<>>]
                     ELSE IF done THEN LkIdle
                     ELSE [@ EXCEPT !.prog = rest],
            !.log = IF ev \in {"stop", "ticker", "flush", "close"} THEN Append(@, ev) ELSE @,
            !.close = IF ev = "close" THEN "done" ELSE IF ev = "failed" THEN "failed" ELSE @]

LkCall(t, op, programs) ==
    /\ t \in Clients
    /\ lk.t[t] = LkIdle
    /\ \E prog \in programs : lk' = [lk EXCEPT !.t[t] = [op |-> op, prog |-> prog]]
    /\ UNCHANGED <<core, cli, dsk, pf, wp, st>>

LkGet(t) == LkCall(t, "Get", GetPrograms)

LkPut(t) == LkCall(t, "Put", PutPrograms)

LkFlush(t) == LkCall(t, "Flush", FlushPrograms(""))

LkStats(t) == LkCall(t, "Stats", {StatsProgram})

LkClear(t) == LkCall(t, "Clear", {ClearProgram})

LkDisk(t) == LkCall(t, "FileCache", DiskPrograms)

\* Close is called once.
LkClose(t) ==
    /\ lk.close = "no"
    /\ t \in Clients
    /\ lk.t[t] = LkIdle
    /\ \E prog \in ClosePrograms :
          lk' = [lk EXCEPT !.t[t] = [op |-> "Close", prog |-> prog], !.close = "running"]
    /\ UNCHANGED <<core, cli, dsk, pf, wp, st>>

Running(t, k) == lk.t[t].prog # <<>> /\ Head0(t).k = k

\* Lock: the writer announces itself; with no reader inside it has the lock.
LkLock(t) ==
    /\ Running(t, "Lock")
    /\ lk.mu[Head0(t).mu].w = "none"
    /\ LET m == Head0(t).mu
       IN  lk' = IF lk.mu[m].r = {}
                 THEN [Advance(t) EXCEPT !.mu[m].w = t, !.mu[m].granted = TRUE]
                 ELSE [lk EXCEPT !.mu[m].w = t]
    /\ UNCHANGED <<core, cli, dsk, pf, wp, st>>

\* Lock returns to the announced writer when the last reader has left.
LkGrant(t) ==
    /\ Running(t, "Lock")
    /\ lk.mu[Head0(t).mu].w = t
    /\ lk.mu[Head0(t).mu].r = {}
    /\ lk' = [Advance(t) EXCEPT !.mu[Head0(t).mu].granted = TRUE]
    /\ UNCHANGED <<core, cli, dsk, pf, wp, st>>

LkUnlock(t) ==
    /\ Running(t, "Unlock")
    /\ lk' = [Advance(t) EXCEPT !.mu[Head0(t).mu] = [@ EXCEPT !.w = "none", !.granted = FALSE]]
    /\ UNCHANGED <<core, cli, dsk, pf, wp, st>>

LkRLock(t) ==
    /\ Running(t, "RLock")
    /\ lk.mu[Head0(t).mu].w = "none"
    /\ lk' = [Advance(t) EXCEPT !.mu[Head0(t).mu].r = @ \cup {t}]
    /\ UNCHANGED <<core, cli, dsk, pf, wp, st>>

LkRUnlock(t) ==
    /\ Running(t, "RUnlock")
    /\ lk' = [Advance(t) EXCEPT !.mu[Head0(t).mu].r = @ \ {t}]
    /\ UNCHANGED <<core, cli, dsk, pf, wp, st>>

\* close(hc.stopFlush), which panics on a closed channel.
LkCloseStop(t) ==
    /\ Running(t, "close")
    /\ lk' = [Advance(t) EXCEPT !.stop = TRUE,
                                !.close = IF lk.stop THEN "panicked" ELSE @]
    /\ UNCHANGED <<core, cli, dsk, pf, wp, st>>

\* hc.flushTicker.Stop()
LkStopTicker(t) ==
    /\ Running(t, "Stop")
    /\ lk' = [Advance(t) EXCEPT !.ticker = FALSE]
    /\ UNCHANGED <<core, cli, dsk, pf, wp, st>>

\* Close returns the error of the final flush.
LkReturn(t) ==
    /\ Running(t, "return")
    /\ lk' = Advance(t)
    /\ UNCHANGED <<core, cli, dsk, pf, wp, st>>

\* The ticker sends on its channel, which buffers one tick.
TickerFires ==
    /\ lk.ticker
    /\ ~lk.tick
    /\ lk' = [lk EXCEPT !.tick = TRUE]
    /\ UNCHANGED <<core, cli, dsk, pf, wp, st>>

\* backgroundFlush: case <-hc.flushTicker.C
BgSelectTick ==
    /\ lk.t[Background].op = "select"
    /\ lk.tick
    /\ \E prog \in FlushPrograms("") :
          lk' = [lk EXCEPT !.tick = FALSE, !.t[Background] = [op |-> "Flush", prog |-> prog]]
    /\ UNCHANGED <<core, cli, dsk, pf, wp, st>>

\* backgroundFlush: case <-hc.stopFlush
BgSelectStop ==
    /\ lk.t[Background].op = "select"
    /\ lk.stop
    /\ lk' = [lk EXCEPT !.t[Background] = [op |-> "exited", prog |-> <<>>]]
    /\ UNCHANGED <<core, cli, dsk, pf, wp, st>>

\* The next call of a thread inside an operation.
LkExec(t) ==
    \/ LkLock(t)
    \/ LkGrant(t)
    \/ LkUnlock(t)
    \/ LkRLock(t)
    \/ LkRUnlock(t)
    \/ LkCloseStop(t)
    \/ LkStopTicker(t)
    \/ LkReturn(t)

LockNext ==
    \/ \E t \in Clients : LkGet(t)
    \/ \E t \in Clients : LkPut(t)
    \/ \E t \in Clients : LkFlush(t)
    \/ \E t \in Clients : LkStats(t)
    \/ \E t \in Clients : LkClear(t)
    \/ \E t \in Clients : LkDisk(t)
    \/ \E t \in Clients : LkClose(t)
    \/ \E t \in LkThreads : LkExec(t)
    \/ TickerFires
    \/ BgSelectTick
    \/ BgSelectStop

LockSpec == LockInit /\ [][LockNext]_vars

\* A goroutine inside an operation keeps running, sync.Mutex hands the lock
\* to a waiter that has waited long enough, and select takes a ready case
\* at random, so a case that stays ready is taken.
LockFairSpec ==
    /\ LockSpec
    /\ \A t \in LkThreads : SF_vars(LkExec(t))
    /\ SF_vars(BgSelectStop)

CloseStages == <<"stop", "ticker", "flush", "close">>

\* C15 (Close protocol): a single Close gives the stop signal and stops
\* the ticker, then makes the final flush, then saves and closes the disk
\* store, in that order, and does not panic; once the stop signal is given
\* the background flush goroutine exits, and Close returns.
C15_CloseProtocol ==
    /\ [](/\ Len(lk.log) <= Len(CloseStages)
          /\ lk.log = SubSeq(CloseStages, 1, Len(lk.log))
          /\ lk.close = "done" => lk.log = CloseStages
          /\ lk.close = "failed" => lk.log = SubSeq(CloseStages, 1, 3)
          /\ lk.close # "panicked")
    /\ (lk.stop ~> lk.t[Background].op = "exited")
    /\ (lk.close = "running" ~> lk.close \in {"done", "failed"})

\* Close has returned after its last stage and the background goroutine has
\* exited.
C15_Witness ==
    /\ lk.close = "done"
    /\ lk.log = CloseStages
    /\ lk.t[Background].op = "exited"

\* The threads a blocked thread waits for: the writer that holds or has
\* announced, or the readers an announced writer waits out.
WaitsFor(t) ==
    IF Running(t, "Lock")
    THEN (IF lk.mu[Head0(t).mu].w = t THEN lk.mu[Head0(t).mu].r
          ELSE IF lk.mu[Head0(t).mu].w = "none" THEN {} ELSE {lk.mu[Head0(t).mu].w})
    ELSE IF Running(t, "RLock")
         THEN (IF lk.mu[Head0(t).mu].w = "none" THEN {} ELSE {lk.mu[Head0(t).mu].w})
         ELSE {}

WaitsForAll(S) == UNION {WaitsFor(u) : u \in S}

\* C16 (deadlock freedom of the two locks): in no state do threads wait
\* for one another in a cycle, and no thread asks for the LRU lock while it
\* holds or has announced for the disk-store lock.
C16_DeadlockFree ==
    /\ \A t \in LkThreads :
          t \notin WaitsFor(t) \cup WaitsForAll(WaitsFor(t))
                   \cup WaitsForAll(WaitsForAll(WaitsFor(t)))
    /\ \A t \in LkThreads :
          lk.t[t].prog # <<>> /\ Head0(t).mu = "hc" /\ Head0(t).k \in {"Lock", "RLock"}
              => ~Holds(t, "fc") /\ lk.mu["fc"].w # t

\* A thread holds the LRU lock and waits for the disk-store lock while
\* another waits for the LRU lock.
C16_Witness ==
    \E t \in LkThreads, u \in LkThreads :
        /\ t # u
        /\ Holds(t, "hc")
        /\ WaitsFor(t) # {}
        /\ t \in WaitsFor(u)

\* C17 (no LRU lock across a disk call): a thread that is in a FileCache
\* call made by HybridCache, from the request of the disk-store lock to its
\* release, does not hold the LRU lock.
C17_NoLockAcrossDiskCall ==
    \A t \in LkThreads :
        lk.t[t].prog # <<>> /\ Head0(t).mu = "fc" /\ Head0(t).via => ~Holds(t, "hc")

(***************************************************************************)
(* computeFileHash on two trees.  A tree is the sequence of the positions  *)
(* of its nodes in the order ast.Inspect visits them, token.NoPos for a    *)
(* node without one.                                                       *)
(***************************************************************************)
MaxNodes == 3

PosChoices == {NoPos, 1, 11, 111}

Trees == UNION {[1..n -> PosChoices] : n \in 1..MaxNodes}

\* The bytes computeFileHash writes to the hash: the digits of every valid
\* position, then the digits of the node count.
RECURSIVE PosBytes(_)
PosBytes(pos) ==
    IF pos = <<>> THEN <<>>
    ELSE (IF Head(pos) # NoPos THEN AppendInt(Head(pos)) ELSE <<>>) \o PosBytes(Tail(pos))

HashInput(pos) == PosBytes(pos) \o AppendInt(Len(pos))

HashInit ==
    /\ CoreInit /\ cli = NoCli /\ dsk = NoDsk /\ lk = NoLk /\ wp = NoWp /\ st = NoSt
    /\ \E a \in Trees, b \in Trees :
          pf = [pc |-> "input", a |-> a, b |-> b, ha |-> <<>>, hb |-> <<>>]

\* Both trees are fingerprinted.
HashBoth ==
    /\ pf.pc = "input"
    /\ pf' = [pf EXCEPT !.pc = "hashed",
                        !.ha = computeFileHash([pos |-> pf.a]),
                        !.hb = computeFileHash([pos |-> pf.b])]
    /\ UNCHANGED <<core, cli, dsk, lk, wp, st>>

HashNext == HashBoth

HashSpec == HashInit /\ [][HashNext]_vars

ValidPositions(pos) == SelectSeq(pos, LAMBDA x : x # NoPos)

\* C18 (fingerprint sensitivity): two trees whose sequences of valid node
\* positions differ, or whose numbers of nodes differ, have different
\* fingerprints, unless the 64-bit hash collides on two different byte
\* streams.
C18_FingerprintSensitive ==
    /\ pf.pc = "hashed"
    /\ \/ ValidPositions(pf.a) # ValidPositions(pf.b)
       \/ Len(pf.a) # Len(pf.b)
    =>  \/ pf.ha # pf.hb
        \/ HashInput(pf.a) # HashInput(pf.b)

\* C19 (nil tree): Analyze, and AnalyzeAll which calls it with a nil map,
\* given a nil tree returns at once an empty list that is not nil, having
\* run no rule, looked into no cache and changed no cache.
C19_NilTree ==
    [][\A t \in Threads :
          th[t].pc = "idle" /\ th'[t].op = "Analyze" /\ th'[t].file = NilFile
              => /\ th'[t].pc = "done"
                 /\ th'[t].result = <<>>
                 /\ ~th'[t].nilResult
                 /\ ~th'[t].ran
                 /\ th'[t].seen = <<>> /\ th'[t].elem = NoNode /\ ~th'[t].ok
                 /\ hc' = hc /\ fc' = fc /\ legacy' = legacy]_vars

\* Analyze has returned for a nil tree under a path the caches hold.
C19_Witness ==
    \E t \in Threads :
        /\ Returned(t)
        /\ th[t].file = NilFile
        /\ th[t].enabled = NilMap
        /\ th[t].key \in DOMAIN hc.memCache
        /\ FindRecord(fc.data.Files, th[t].key) # 0

(***************************************************************************)
(* The ignore checker on a file with one directive comment: the comment    *)
(* is parsed and every category is asked for on every line around it.      *)
(***************************************************************************)
MaxLine == 3

\* Category names, as IssueType.String() gives them and as a directive
\* spells them.
Categories == {<<"RaceCondition">>, <<"NestedLoop">>, <<"STRING_CONCAT", "_IN_LOOP">>}

\* The single-line directives: the bare one, and the two that name a
\* category.
DirectiveText(form, cat) ==
    CASE form = "ignore" -> <<"abc:ignore">>
      [] form = "ignore-line" -> <<"abc:ignore", "-line", " ">> \o cat
      [] form = "ignore-next-line" -> <<"abc:ignore", "-next-line", " ">> \o cat

DirectiveForms == {"ignore", "ignore-line", "ignore-next-line"}

\* The ways the comment is written around the directive.
CommentText(style, text) ==
    CASE style = "line" -> <<"//">> \o text
      [] style = "spaced" -> <<"//", " ">> \o text
      [] style = "block" -> <<"/*", " ">> \o text \o <<" ", "*/">>

CommentStyles == {"line", "spaced", "block"}

ProbeLines == 0..(MaxLine + 3)

SuppressInit ==
    /\ CoreInit /\ cli = NoCli /\ dsk = NoDsk /\ lk = NoLk /\ wp = NoWp /\ st = NoSt
    /\ \E form \in DirectiveForms, cat \in Categories, style \in CommentStyles, n \in 1..MaxLine :
          pf = [pc |-> "input", form |-> form, cat |-> cat, line |-> n,
                comments |-> <<Comment(CommentText(style, DirectiveText(form, cat)), n)>>,
                hits |-> {}]

\* NewIgnoreChecker on the file, then ShouldIgnore for every category and
\* line.
SuppressCheck ==
    /\ pf.pc = "input"
    /\ LET ic == NewIgnoreChecker(pf.comments)
       IN  pf' = [pf EXCEPT !.pc = "checked",
                            !.hits = {x \in Categories \X ProbeLines : ShouldIgnore(ic, x[1], x[2])}]
    /\ UNCHANGED <<core, cli, dsk, lk, wp, st>>

SuppressNext == SuppressCheck

SuppressSpec == SuppressInit /\ [][SuppressNext]_vars

\* C20 (suppression line precision): with the directive in a comment on
\* line N, bare abc:ignore suppresses every category on line N+1 and
\* nothing else, abc:ignore-line C suppresses category C on line N and
\* nothing else, and abc:ignore-next-line C suppresses category C on line
\* N+1 and nothing else.
C20_LinePrecision ==
    pf.pc = "checked" =>
        pf.hits =
            CASE pf.form = "ignore" -> Categories \X {pf.line + 1}
              [] pf.form = "ignore-line" -> {<<pf.cat, pf.line>>}
              [] pf.form = "ignore-next-line" -> {<<pf.cat, pf.line + 1>>}

\* The next-line directive was checked for a category whose name the
\* default directive treats as loop-related.
C20_Witness ==
    /\ pf.pc = "checked"
    /\ pf.form = "ignore-next-line"
    /\ pf.cat = <<"STRING_CONCAT", "_IN_LOOP">>
    /\ <<pf.cat, pf.line + 1>> \in pf.hits
    /\ <<pf.cat, pf.line + 2>> \notin pf.hits

\* C29 (enabled-rule selection across calls): every call of Analyze with a
\* tree returns what the rules its enabled set names (all of them for a nil
\* set) produce on the tree, in registration order, whatever sets earlier
\* calls used.  Stated for the trees whose fingerprint no other tree of the
\* model shares, so that an entry with the hash of the tree was stored for
\* this tree.
C29_EnabledSelection ==
    \A t \in Threads :
        (/\ Returned(t)
         /\ th[t].file \in FileNames
         /\ \A f \in FileNames \ {th[t].file} : FileHash[f] # FileHash[th[t].file])
        => th[t].result = RunAnalyzers(allAnalyzers, Files[th[t].file], th[t].enabled)

(***************************************************************************)
(* The ignore checker and the filter on a file with one directive comment  *)
(* of any keyword and any spelling of the category list, and a list of     *)
(* issues of the file.                                                     *)
(***************************************************************************)
MaxIssues == 3

\* What follows abc:ignore in the first word of the comment: nothing, one
\* of the three suffixes the switch knows, and two it does not know.
KnownKeywords == {<<>>, <<"-line">>, <<"-next-line">>, <<"-file">>}

Keywords == KnownKeywords \cup {<<"-block">>, <<"d">>}

\* The spellings of the category list after the keyword.
ListText(spelling, a, b) ==
    CASE spelling = "none"        -> <<>>
      [] spelling = "one"         -> <<" ">> \o a
      [] spelling = "two"         -> <<" ">> \o a \o <<",">> \o b
      [] spelling = "commaSpace"  -> <<" ">> \o a \o <<",", " ">> \o b
      [] spelling = "spaceComma"  -> <<" ">> \o a \o <<" ", ",">> \o b
      [] spelling = "twoSpaces"   -> <<" ", " ">> \o a
      [] spelling = "star"        -> <<" ", "*">>

ListSpellings == {"none", "one", "two", "commaSpace", "spaceComma", "twoSpaces", "star"}

\* The category names the list spells out.
Listed(spelling, a, b) ==
    CASE spelling \in {"none", "star"} -> {}
      [] spelling \in {"one", "twoSpaces"} -> {a}
      [] OTHER -> {a, b}

FirstCategories == {<<"RaceCondition">>, <<"STRING_CONCAT", "_IN_LOOP">>}

SecondCategory == <<"NestedLoop">>

\* Line numbers asked of ShouldIgnore: around the comment, and around the
\* last line of the file-wide range.
FilterProbeLines == 0..(MaxLine + 1) \cup {FileEndLine, FileEndLine + 1}

\* The issues of the file: pointers to distinct objects, and nil.
IssuePool ==
    {CliIssue("p1", "RaceCondition", 2, "High"), CliIssue("p2", "NestedLoop", 2, "Medium"),
     CliIssue("p3", "RaceCondition", 3, "High"), NilIssue}

IssueLists ==
    {l \in UNION {[1..n -> IssuePool] : n \in 0..MaxIssues} :
        \A i, j \in DOMAIN l : i # j => l[i] # l[j]}

FilterInit ==
    /\ CoreInit /\ cli = NoCli /\ dsk = NoDsk /\ lk = NoLk /\ wp = NoWp /\ st = NoSt
    /\ \E kw \in Keywords, spelling \in ListSpellings, a \in FirstCategories,
          style \in {"spaced", "block"}, n \in 1..MaxLine, parsed \in BOOLEAN,
          issues \in IssueLists :
          LET text == <<"abc:ignore">> \o kw \o ListText(spelling, a, SecondCategory)
              file == AstFile(<<Comment(CommentText(style, text), n)>>)
          IN  pf = [pc |-> "input", keyword |-> kw, spelling |-> spelling,
                    listed |-> Listed(spelling, a, SecondCategory), first |-> a, line |-> n,
                    file |-> IF parsed THEN file ELSE NilAstFile,
                    comments |-> file.Comments,
                    issues |-> issues, ranges |-> <<>>, hits |-> {},
                    once |-> <<>>, twice |-> <<>>]

\* NewIgnoreChecker on the comments, then ShouldIgnore for every category
\* and line.
FilterParse ==
    /\ pf.pc = "input"
    /\ LET ic == NewIgnoreChecker(pf.comments)
       IN  pf' = [pf EXCEPT
                    !.pc = "checked",
                    !.ranges = ic,
                    !.hits = {x \in Categories \X FilterProbeLines : ShouldIgnore(ic, x[1], x[2])}]
    /\ UNCHANGED <<core, cli, dsk, lk, wp, st>>

\* FilterIssuesByComments on the issues of the file.
FilterOnce ==
    /\ pf.pc = "checked"
    /\ pf' = [pf EXCEPT !.pc = "filtered", !.once = FilterIssuesByComments(pf.issues, pf.file)]
    /\ UNCHANGED <<core, cli, dsk, lk, wp, st>>

\* FilterIssuesByComments on what the first call returned.
FilterTwice ==
    /\ pf.pc = "filtered"
    /\ pf' = [pf EXCEPT !.pc = "refiltered", !.twice = FilterIssuesByComments(pf.once, pf.file)]
    /\ UNCHANGED <<core, cli, dsk, lk, wp, st>>

FilterNext == FilterParse \/ FilterOnce \/ FilterTwice

FilterSpec == FilterInit /\ [][FilterNext]_vars

\* The line a single-line directive is about: the comment's own line for
\* abc:ignore-line, the next one otherwise.
TargetLine == IF pf.keyword = <<"-line">> THEN pf.line ELSE pf.line + 1

\* C21 (listed categories only): after abc:ignore, abc:ignore-line or
\* abc:ignore-next-line followed by a list of category names, however the
\* list is spaced, no category outside the list is suppressed on the target
\* line, and every range recorded is recorded under a listed name: none
\* under another category, none under the all-categories key.
C21_ListedOnly ==
    (/\ pf.pc # "input"
     /\ pf.keyword \in {<<>>, <<"-line">>, <<"-next-line">>}
     /\ pf.listed # {})
    => /\ \A c \in Categories \ pf.listed : <<c, TargetLine>> \notin pf.hits
       /\ \A i \in DOMAIN pf.ranges : pf.ranges[i].issueType \in pf.listed

\* C22 (file-wide suppression): after abc:ignore-file C, category C is
\* suppressed on every line number; after abc:ignore-file *, every category
\* is suppressed on every line number.
C22_FileWide ==
    (pf.pc # "input" /\ pf.keyword = <<"-file">>)
    => /\ pf.spelling = "one" => \A n \in FilterProbeLines : <<pf.first, n>> \in pf.hits
       /\ pf.spelling = "star" => pf.hits = Categories \X FilterProbeLines

\* C23 (unknown keywords): a comment that starts with abc:ignore and whose
\* keyword is none of the four records no range, with or without a list,
\* and the filter removes no issue.
C23_UnknownKeyword ==
    (pf.pc \in {"filtered", "refiltered"} /\ pf.keyword \notin KnownKeywords)
    => /\ pf.ranges = <<>>
       /\ pf.once = SelectSeq(pf.issues, LAMBDA issue : pf.file.isNil \/ issue # NilIssue)

\* a is b with some of its elements left out.
RECURSIVE IsSubsequence(_, _)
IsSubsequence(a, b) ==
    IF a = <<>> THEN TRUE
    ELSE IF b = <<>> THEN FALSE
    ELSE IF Head(a) = Head(b) THEN IsSubsequence(Tail(a), Tail(b))
    ELSE IsSubsequence(a, Tail(b))

\* C24 (the filter selects, keeps the order and is idempotent): what
\* FilterIssuesByComments returns holds issues of its input, the same
\* objects in the same relative order, and filtering the result again with
\* the same file returns the same list.
C24_FilterIdempotent ==
    /\ pf.pc \in {"filtered", "refiltered"} => IsSubsequence(pf.once, pf.issues)
    /\ pf.pc = "refiltered" => pf.twice = pf.once

\* The filter ran twice on a list of three issues of which the first call
\* removed one and kept two.
C24_Witness ==
    /\ pf.pc = "refiltered"
    /\ ~pf.file.isNil
    /\ Len(pf.issues) = 3
    /\ Len(pf.once) = 2
    /\ NilIssue \notin Range(pf.issues)

(***************************************************************************)
(* cmd: the worker pool of analyzeTarget.  The collected paths are the     *)
(* numbers 1..n; analyzeFile is taken as a call that returns the issues of *)
(* the file.  wp.ch is fileChan (buffer and closed flag), wp.mu the mutex  *)
(* (its holder), wp.wg the counter of the WaitGroup.  wp.analysed and      *)
(* wp.takenBy record what the workers did and are not read by them.        *)
(***************************************************************************)
MaxWorkers == 2

MaxFiles == 3

Workers == 1..MaxWorkers

\* What analyzeFile returns for a path: a list of its own issues, empty for
\* some paths.
FileIssues(path) == [k \in 1..(path % 3) |-> <<path, k>>]

\* make(chan string, len(filesToAnalyze))
MakeChan(filesToAnalyze) == [buf |-> <<>>, cap |-> Len(filesToAnalyze), closed |-> FALSE]

NoWorker == 0

NotStarted == [pc |-> "unborn", path |-> 0, issues |-> <<>>, seenIssues |-> <<>>, seenCount |-> 0]

PoolStart(numWorkers, files) ==
    [pc |-> "spawn", numWorkers |-> numWorkers, files |-> files, i |-> 1, next |-> 1,
     ch |-> MakeChan(files), mu |-> NoWorker, wg |-> 0,
     allIssues |-> <<>>, filesAnalyzed |-> 0,
     w |-> [x \in Workers |-> NotStarted],
     analysed |-> [p \in 1..MaxFiles |-> 0],
     takenBy |-> [p \in 1..MaxFiles |-> {}]]

\* The state after the walk: the files collected, runtime.NumCPU() workers
\* to start.
PoolInit ==
    /\ CoreInit /\ cli = NoCli /\ dsk = NoDsk /\ lk = NoLk /\ pf = NoPf /\ st = NoSt
    /\ \E numWorkers \in 1..MaxWorkers, n \in 0..MaxFiles :
          wp = PoolStart(numWorkers, [p \in 1..n |-> p])

\* wg.Add(1); go func() {...}()
StartWorker ==
    /\ wp.pc = "spawn"
    /\ wp.i <= wp.numWorkers
    /\ wp' = [wp EXCEPT !.wg = @ + 1, !.w[wp.i].pc = "recv", !.i = @ + 1]
    /\ UNCHANGED <<core, cli, dsk, lk, pf, st>>

\* The loop that starts the workers is over.
WorkersStarted ==
    /\ wp.pc = "spawn"
    /\ wp.i > wp.numWorkers
    /\ wp' = [wp EXCEPT !.pc = "send"]
    /\ UNCHANGED <<core, cli, dsk, lk, pf, st>>

\* fileChan <- path: blocks while the buffer is full.
Send ==
    /\ wp.pc = "send"
    /\ wp.next <= Len(wp.files)
    /\ Len(wp.ch.buf) < wp.ch.cap
    /\ wp' = [wp EXCEPT !.ch.buf = Append(@, wp.files[wp.next]), !.next = @ + 1]
    /\ UNCHANGED <<core, cli, dsk, lk, pf, st>>

\* A faulty variant: the channel is left open.
CloseChanForgotten(ch) == ch

\* close(fileChan)
CloseChan(ch) == [ch EXCEPT !.closed = TRUE]

Close ==
    /\ wp.pc = "send"
    /\ wp.next > Len(wp.files)
    /\ wp' = [wp EXCEPT !.pc = "wait", !.ch = CloseChan(@)]
    /\ UNCHANGED <<core, cli, dsk, lk, pf, st>>

\* wg.Wait() returns when the counter is zero; analyzeTarget returns
\* allIssues.
Wait ==
    /\ wp.pc = "wait"
    /\ wp.wg = 0
    /\ wp' = [wp EXCEPT !.pc = "done"]
    /\ UNCHANGED <<core, cli, dsk, lk, pf, st>>

\* for path := range fileChan: takes the first buffered path.
Receive(x) ==
    /\ wp.w[x].pc = "recv"
    /\ wp.ch.buf # <<>>
    /\ wp' = [wp EXCEPT !.ch.buf = Tail(@),
                        !.w[x].pc = "analyze",
                        !.w[x].path = Head(wp.ch.buf),
                        !.takenBy[Head(wp.ch.buf)] = @ \cup {x}]
    /\ UNCHANGED <<core, cli, dsk, lk, pf, st>>

\* The range loop ends on a closed and drained channel; the deferred
\* wg.Done() runs.
RangeEnds(x) ==
    /\ wp.w[x].pc = "recv"
    /\ wp.ch.buf = <<>>
    /\ wp.ch.closed
    /\ wp' = [wp EXCEPT !.w[x].pc = "exited", !.wg = @ - 1]
    /\ UNCHANGED <<core, cli, dsk, lk, pf, st>>

\* issues := analyzeFile(path, config); lines := countLines(path)
AnalyzeOne(x) ==
    /\ wp.w[x].pc = "analyze"
    /\ wp' = [wp EXCEPT !.w[x].pc = "lock",
                        !.w[x].issues = FileIssues(wp.w[x].path),
                        !.analysed[wp.w[x].path] = @ + 1]
    /\ UNCHANGED <<core, cli, dsk, lk, pf, st>>

\* A faulty variant: the worker does not wait for the mutex.
MutexFreeAlways(mu) == TRUE

\* mu.Lock() returns when no worker holds the mutex.
MutexFree(mu) == mu = NoWorker

Lock(x) ==
    /\ wp.w[x].pc = "lock"
    /\ MutexFree(wp.mu)
    /\ wp' = [wp EXCEPT !.mu = x, !.w[x].pc = "read"]
    /\ UNCHANGED <<core, cli, dsk, lk, pf, st>>

\* append(allIssues, issues...) and filesAnalyzed++ read the shared values ...
ReadShared(x) ==
    /\ wp.w[x].pc = "read"
    /\ wp' = [wp EXCEPT !.w[x].pc = "write",
                        !.w[x].seenIssues = wp.allIssues,
                        !.w[x].seenCount = wp.filesAnalyzed]
    /\ UNCHANGED <<core, cli, dsk, lk, pf, st>>

\* ... and write the new ones.
WriteShared(x) ==
    /\ wp.w[x].pc = "write"
    /\ wp' = [wp EXCEPT !.w[x].pc = "unlock",
                        !.allIssues = wp.w[x].seenIssues \o wp.w[x].issues,
                        !.filesAnalyzed = wp.w[x].seenCount + 1]
    /\ UNCHANGED <<core, cli, dsk, lk, pf, st>>

\* mu.Unlock(), and back to the range loop.
Unlock(x) ==
    /\ wp.w[x].pc = "unlock"
    /\ wp' = [wp EXCEPT !.mu = NoWorker,
                        !.w[x] = [NotStarted EXCEPT !.pc = "recv"]]
    /\ UNCHANGED <<core, cli, dsk, lk, pf, st>>

Producer == StartWorker \/ WorkersStarted \/ Send \/ Close \/ Wait

Worker(x) ==
    \/ Receive(x)
    \/ RangeEnds(x)
    \/ AnalyzeOne(x)
    \/ Lock(x)
    \/ ReadShared(x)
    \/ WriteShared(x)
    \/ Unlock(x)

PoolNext == Producer \/ \E x \in Workers : Worker(x)

PoolSpec == PoolInit /\ [][PoolNext]_vars

\* Every goroutine that can take a step is scheduled: the goroutine of
\* analyzeTarget and each worker.
PoolFairSpec == PoolSpec /\ WF_vars(Producer) /\ \A x \in Workers : WF_vars(Worker(x))

\* The number of times v occurs in s.
Occurrences(s, v) == Cardinality({i \in DOMAIN s : s[i] = v})

\* C25 (worker pool completeness): no path is taken by two workers or
\* analysed twice, and when analyzeTarget returns every collected path was
\* taken by one worker and analysed once, the merged list holds every issue
\* returned for every file once and nothing else, and the counter of files
\* equals the number of collected files.
C25_PoolComplete ==
    /\ \A p \in 1..MaxFiles : wp.analysed[p] <= 1 /\ Cardinality(wp.takenBy[p]) <= 1
    /\ wp.pc = "done" =>
          /\ \A p \in DOMAIN wp.files :
                /\ wp.analysed[p] = 1
                /\ Cardinality(wp.takenBy[p]) = 1
                /\ \A k \in DOMAIN FileIssues(p) :
                      Occurrences(wp.allIssues, FileIssues(p)[k]) = 1
          /\ Len(wp.allIssues) = SumSeq([p \in DOMAIN wp.files |-> Len(FileIssues(p))])
          /\ wp.filesAnalyzed = Len(wp.files)

\* analyzeTarget returned after two workers shared three files.
C25_Witness ==
    /\ wp.pc = "done"
    /\ Len(wp.files) = 3
    /\ \E p, q \in DOMAIN wp.files : wp.takenBy[p] # wp.takenBy[q]

\* C26 (worker pool termination): the producer never finds the buffer full
\* when it queues a path, after the channel is closed every worker exits,
\* and analyzeTarget returns.
C26_PoolTerminates ==
    /\ []((wp.pc = "send" /\ wp.next <= Len(wp.files)) => Len(wp.ch.buf) < wp.ch.cap)
    /\ (wp.ch.closed ~> \A x \in 1..wp.numWorkers : wp.w[x].pc = "exited")
    /\ <>(wp.pc = "done")

\* analyzeTarget returned with no file collected and two workers started:
\* both left their loops without a receive.
C26_Witness ==
    /\ wp.pc = "done"
    /\ wp.numWorkers = 2
    /\ wp.files = <<>>
    /\ \A x \in Workers : wp.w[x].pc = "exited"

(***************************************************************************)
(* The record table of a disk store opened on an empty directory, under    *)
(* calls for two paths.  Every one of these methods runs from its first    *)
(* access of fc.data to its return under fc.mu (Lock, or RLock for the     *)
(* two reads), so overlapping calls act one after the other in the order   *)
(* they get the lock, and a step is a whole call.  st.last is the last     *)
(* save of each path since the store was cleared, st.reported what         *)
(* GetStats returned and st.got what GetFileRecord returned, when no call  *)
(* has changed the table since.                                            *)
(***************************************************************************)
TablePaths == {"a.go", "b.go"}

\* FileCache.GetStats: the map it returns, without the clock readings.
GetStats(c) ==
    [total_files    |-> c.data.Stats.TotalFiles,
     total_issues   |-> c.data.Stats.TotalIssues,
     ignored_issues |-> c.data.Stats.IgnoredIssues,
     fixed_issues   |-> c.data.Stats.FixedIssues,
     cache_hits     |-> c.data.Stats.CacheHits,
     cache_misses   |-> c.data.Stats.CacheMisses]

NoSave == [set |-> FALSE, again |-> FALSE, Hash |-> <<>>, Issues |-> <<>>]

NoAnswer == [set |-> FALSE, val |-> <<>>]

TableStart ==
    [pc |-> "table", last |-> [p \in TablePaths |-> NoSave],
     reported |-> NoAnswer, got |-> NoAnswer]

TableInit ==
    /\ CoreInit /\ cli = NoCli /\ dsk = NoDsk /\ lk = NoLk /\ pf = NoPf /\ wp = NoWp
    /\ st = TableStart

\* The table changed: earlier answers are no longer about it.
Saved(path, entry) ==
    [st EXCEPT !.last[path] = [set |-> TRUE, again |-> st.last[path].set,
                               Hash |-> entry.Hash, Issues |-> entry.Issues],
               !.reported = NoAnswer, !.got = NoAnswer]

Changed == [st EXCEPT !.reported = NoAnswer, !.got = NoAnswer]

TSaveFileRecord(path, entry) ==
    /\ fc' = SaveFileRecord(fc, heap, path, entry.Hash, entry.Issues)
    /\ st' = Saved(path, entry)
    /\ UNCHANGED <<hc, heap, legacy, hybridOn, th, held, gh, cli, dsk, lk, pf, wp>>

TSaveRawRecord(path, entry) ==
    /\ fc' = SaveRawRecord(fc, heap, path, entry)
    /\ st' = Saved(path, entry)
    /\ UNCHANGED <<hc, heap, legacy, hybridOn, th, held, gh, cli, dsk, lk, pf, wp>>

TIgnoreIssue(path, issueID) ==
    /\ fc' = IgnoreIssue(fc, heap, path, issueID).fc
    /\ heap' = IgnoreIssue(fc, heap, path, issueID).heap
    /\ st' = Changed
    /\ UNCHANGED <<hc, legacy, hybridOn, th, held, gh, cli, dsk, lk, pf, wp>>

TMarkIssueFixed(path, issueID) ==
    /\ fc' = MarkIssueFixed(fc, heap, path, issueID).fc
    /\ heap' = MarkIssueFixed(fc, heap, path, issueID).heap
    /\ st' = Changed
    /\ UNCHANGED <<hc, legacy, hybridOn, th, held, gh, cli, dsk, lk, pf, wp>>

TClearCache ==
    /\ fc' = ClearCache(fc, heap)
    /\ st' = TableStart
    /\ UNCHANGED <<hc, heap, legacy, hybridOn, th, held, gh, cli, dsk, lk, pf, wp>>

TGetStats ==
    /\ st' = [st EXCEPT !.reported = [set |-> TRUE, val |-> GetStats(fc)]]
    /\ UNCHANGED <<core, cli, dsk, lk, pf, wp>>

TGetFileRecord(path) ==
    /\ st' = [st EXCEPT !.got = [set |-> TRUE,
                                 val |-> [path |-> path, rec |-> GetFileRecord(fc, path)]]]
    /\ UNCHANGED <<core, cli, dsk, lk, pf, wp>>

TableNext ==
    \/ \E path \in TablePaths, entry \in PutEntries : TSaveFileRecord(path, entry)
    \/ \E path \in TablePaths, entry \in PutEntries : TSaveRawRecord(path, entry)
    \/ \E path \in TablePaths, id \in IssueIDs : TIgnoreIssue(path, id)
    \/ \E path \in TablePaths, id \in IssueIDs : TMarkIssueFixed(path, id)
    \/ TClearCache
    \/ TGetStats
    \/ \E path \in TablePaths : TGetFileRecord(path)

TableSpec == TableInit /\ [][TableNext]_vars

\* The entries of the table, one for each issue a record lists.
StoredIssues ==
    UNION {{<<i, j>> : j \in DOMAIN fc.data.Files[i].Issues} : i \in DOMAIN fc.data.Files}

\* The entries of the ignored lists of the table.
StoredIgnored ==
    UNION {{<<i, j>> : j \in DOMAIN fc.data.Files[i].Ignored} : i \in DOMAIN fc.data.Files}

\* C27 (aggregate statistics): after any sequence of SaveFileRecord,
\* SaveRawRecord, IgnoreIssue, MarkIssueFixed and ClearCache on a store
\* opened empty, GetStats reports the number of records, the number of
\* issues the records list, the number of entries of their ignored lists
\* and the number of listed issues with FixedAt set.
C27_StatsAggregate ==
    st.reported.set =>
        /\ st.reported.val.total_files = Len(fc.data.Files)
        /\ st.reported.val.total_issues = Cardinality(StoredIssues)
        /\ st.reported.val.ignored_issues = Cardinality(StoredIgnored)
        /\ st.reported.val.fixed_issues =
              Cardinality({x \in StoredIssues : heap[fc.data.Files[x[1]].Issues[x[2]]].FixedAt})

\* GetStats was called on a table of two records with an issue fixed and
\* an issue ignored.
C27_Witness ==
    /\ st.reported.set
    /\ st.reported.val.total_files = 2
    /\ st.reported.val.fixed_issues >= 1
    /\ st.reported.val.ignored_issues >= 1
    /\ st.reported.val.total_issues > st.reported.val.fixed_issues

\* C30 (one record for a path): on a store opened empty the table never
\* holds two records of one path, and GetFileRecord(path) returns the hash
\* and the issues of the last save of the path, or nothing when the path
\* was not saved since the store was cleared.
C30_PathUnique ==
    /\ \A i, j \in DOMAIN fc.data.Files :
          fc.data.Files[i].Path = fc.data.Files[j].Path => i = j
    /\ st.got.set =>
          LET path == st.got.val.path
              rec == st.got.val.rec
          IN  IF st.last[path].set
              THEN /\ rec.Path = path
                   /\ rec.Hash = st.last[path].Hash
                   /\ rec.Issues = st.last[path].Issues
              ELSE rec = NotFound

\* GetFileRecord returned the record of a path saved twice, with the other
\* path saved after it.
C30_Witness ==
    /\ st.got.set
    /\ st.last[st.got.val.path].again
    /\ Len(fc.data.Files) = 2
    /\ fc.data.Files[1].Path = st.got.val.path

(***************************************************************************)
(* FileCache.IsFileChanged called by two goroutines while the file is      *)
(* edited and the store saved to and cleared.  A call hashes the file,     *)
(* looks the record up under fc.mu.RLock, and counts under fc.mu.Lock:     *)
(* each of the two sections is one step.  st.hits and st.misses count the  *)
(* calls that went through their counting section since the store was     *)
(* cleared; st.t[x].sawFiles is the table as the lookup of x found it.     *)
(***************************************************************************)
MaxCalls == 3

Callers == {"g1", "g2"}

ChangedPaths == {"a.go", "b.go"}

\* The texts of a file; an unreadable file has none.
Unreadable == "unreadable"

Texts == {"v1", "v2"}

CallerIdle ==
    [pc |-> "idle", path |-> "", hash |-> <<>>, record |-> NotFound, seen |-> EmptyStats,
     sawFiles |-> <<>>, changed |-> FALSE, err |-> FALSE]

ChangedStart ==
    [pc |-> "calls", src |-> [p \in ChangedPaths |-> "v1"], calls |-> 0,
     hits |-> 0, misses |-> 0,
     t |-> [x \in Callers |-> CallerIdle]]

ChangedInit ==
    /\ CoreInit /\ cli = NoCli /\ dsk = NoDsk /\ lk = NoLk /\ pf = NoPf /\ wp = NoWp
    /\ st = ChangedStart

\* The user edits a.go, or makes it unreadable.
CEdit(text) ==
    /\ st.src["a.go"] # text
    /\ st' = [st EXCEPT !.src["a.go"] = text]
    /\ UNCHANGED <<core, cli, dsk, lk, pf, wp>>

\* SaveFileRecord of a.go: CalculateFileHash, then the table under the lock.
CSave ==
    /\ st.src["a.go"] # Unreadable
    /\ fc' = SaveFileRecord(fc, heap, "a.go", CalculateFileHash(st.src["a.go"]), <<>>)
    /\ UNCHANGED <<hc, heap, legacy, hybridOn, th, held, gh, aux>>

CClear ==
    /\ fc' = ClearCache(fc, heap)
    /\ st' = [st EXCEPT !.hits = 0, !.misses = 0]
    /\ UNCHANGED <<hc, heap, legacy, hybridOn, th, held, gh, cli, dsk, lk, pf, wp>>

\* currentHash, err := CalculateFileHash(filePath); with an error the call
\* returns (true, err).
ChangedCall(x, path) ==
    /\ st.t[x].pc = "idle"
    /\ st.calls < MaxCalls
    /\ st' = [st EXCEPT
                !.calls = @ + 1,
                !.t[x] = IF st.src[path] = Unreadable
                         THEN [CallerIdle EXCEPT !.pc = "done", !.path = path,
                                                 !.changed = TRUE, !.err = TRUE]
                         ELSE [CallerIdle EXCEPT !.pc = "lookup", !.path = path,
                                                 !.hash = CalculateFileHash(st.src[path])]]
    /\ UNCHANGED <<core, cli, dsk, lk, pf, wp>>

\* The loop under RLock: the first record of the path, or nil.
ChangedLookup(x) ==
    /\ st.t[x].pc = "lookup"
    /\ st' = [st EXCEPT
                !.t[x].pc = "count",
                !.t[x].record = GetFileRecord(fc, st.t[x].path),
                !.t[x].seen = fc.data.Stats,
                !.t[x].sawFiles = fc.data.Files]
    /\ UNCHANGED <<core, cli, dsk, lk, pf, wp>>

\* A faulty variant: the counters are taken as the lookup found them.
CountersAtLookup(stats, seen) == seen

\* The counters a counting section increments: those of fc.data.Stats as
\* they are under the write lock.
CountersUnderLock(stats, seen) == stats

\* changed := record == nil || record.Hash != currentHash, then the
\* increment of one counter under Lock, and the return.
ChangedCount(x) ==
    /\ st.t[x].pc = "count"
    /\ LET r == st.t[x]
           changed == r.record = NotFound \/ r.record.Hash # r.hash
           base == CountersUnderLock(fc.data.Stats, r.seen)
       IN  /\ fc' = [fc EXCEPT
                       !.data.Stats.CacheMisses = IF changed THEN base.CacheMisses + 1
                                                  ELSE base.CacheMisses,
                       !.data.Stats.CacheHits = IF changed THEN base.CacheHits
                                                ELSE base.CacheHits + 1]
           /\ st' = [st EXCEPT
                       !.t[x].pc = "done",
                       !.t[x].changed = changed,
                       !.misses = IF changed THEN @ + 1 ELSE @,
                       !.hits = IF changed THEN @ ELSE @ + 1]
    /\ UNCHANGED <<hc, heap, legacy, hybridOn, th, held, gh, cli, dsk, lk, pf, wp>>

\* The caller has its answer and may call again.
ChangedReturn(x) ==
    /\ st.t[x].pc = "done"
    /\ st' = [st EXCEPT !.t[x] = CallerIdle]
    /\ UNCHANGED <<core, cli, dsk, lk, pf, wp>>

ChangedNext ==
    \/ \E text \in Texts \cup {Unreadable} : CEdit(text)
    \/ CSave
    \/ CClear
    \/ \E x \in Callers, path \in ChangedPaths : ChangedCall(x, path)
    \/ \E x \in Callers : ChangedLookup(x)
    \/ \E x \in Callers : ChangedCount(x)
    \/ \E x \in Callers : ChangedReturn(x)

ChangedSpec == ChangedInit /\ [][ChangedNext]_vars

\* C28 (IsFileChanged): a call that read the file returns false exactly
\* when the table, as its lookup found it, holds a record of the path with
\* the hash the call computed; a call that could not read the file returns
\* (true, error); every call that read the file has added one to
\* cache_hits when it returned false and one to cache_misses when it
\* returned true, and no increment of an overlapping call is lost; a call
\* that could not read the file has changed no counter.
C28_IsFileChanged ==
    /\ \A x \in Callers :
          st.t[x].pc = "done" =>
              IF st.t[x].err THEN st.t[x].changed
              ELSE st.t[x].changed =
                      ~\E i \in DOMAIN st.t[x].sawFiles :
                          /\ st.t[x].sawFiles[i].Path = st.t[x].path
                          /\ st.t[x].sawFiles[i].Hash = st.t[x].hash
    /\ fc.data.Stats.CacheHits = st.hits
    /\ fc.data.Stats.CacheMisses = st.misses

\* Two calls for a.go are between their lookup and their count at once,
\* one having found the record with its hash and the other with another
\* hash, after a call that could not read the file.
C28_Witness ==
    /\ \A x \in Callers : st.t[x].pc = "count" /\ st.t[x].path = "a.go"
    /\ \E x, y \in Callers :
          /\ st.t[x].record # NotFound /\ st.t[x].record.Hash = st.t[x].hash
          /\ st.t[y].record # NotFound /\ st.t[y].record.Hash # st.t[y].hash
    /\ st.calls = MaxCalls
    /\ st.hits = 0 /\ st.misses = 0

=============================================================================
